---------------------------- MODULE Spec2Model ----------------------------
(***************************************************************************)
(* A model of the glue code of the pixmo-docs synthetic-data generator.    *)
(*                                                                         *)
(*  Spec      the "Generate Images" map step and the filter step of the    *)
(*            LaTeX diagram pipeline (the RDKit chemical pipeline repeats  *)
(*            the same wrapper statement for statement):                   *)
(*            execute_code_and_generate_image with its process-wide        *)
(*            SIGALRM alarm and working directory.                         *)
(*  SpecMain  main.py: validate_config over the environment, the exit on   *)
(*            failure, and run_datadreamer_session's LLM construction.     *)
(*  SpecAzure AzureTokenManager and AzureLLM.run's patched create call     *)
(*            with its 401 retry.                                          *)
(*  SpecArgs  run_datadreamer_session: the pipelines --pipelines selects   *)
(*            and the counts --num gives them.                             *)
(*  SpecConvert  convert.py: convert_dataset_to_jsonl over a dataset,      *)
(*            with process_value, base64 and the exported image files.     *)
(*  SpecOverlap  two invocations of execute_code_and_generate_image        *)
(*            interleaved over the one alarm of the process.               *)
(*  SpecPatch AzureLLM.run / ProxyLLM.run called from two threads: the     *)
(*            create method each call replaces and restores.               *)
(*  SpecLock  AzureTokenManager.get_token called from two threads, with    *)
(*            its lock.                                                    *)
(*                                                                         *)
(* The specifications share the module; each leaves the variables of the   *)
(* others at their idle values.                                            *)
(***************************************************************************)
EXTENDS Integers, Sequences, FiniteSets, TLC

VARIABLES
    \* ---- Generate Images / filter (generate_diagram.py) ----
    rows,          \* the batch: rows[i] is how rendering row i behaves
    idx,           \* the row the map step is at (1-based)
    pc,            \* position inside execute_code_and_generate_image
    cwd,           \* the process working directory
    original_dir,  \* the wrapper's local original_dir
    handler,       \* the process's SIGALRM handler
    alarm,         \* seconds the pending alarm was armed with, 0 = none
    armed,         \* history: this invocation called signal.alarm(timeout)
    firedAt,       \* history: where this invocation's alarm went off
    thrown,        \* history: the non-timeout exception raised in the try
    rendered,      \* the wrapper's local image: what the renderer returned
    image,         \* row["image"] of the current row
    exc,           \* exception in flight while the finally block runs
    escaped,       \* exception that left the wrapper
    out,           \* rows the map step has produced so far
    mapState,      \* "mapping", "done", "aborted", "filtered"
    filtered,      \* the filter step's output
    logged,        \* whether the success ratio was logged
    \* ---- main.py / run_datadreamer_session ----
    env,           \* os.environ: variable name -> value, Unset when absent
    mpc,           \* position in main.py's __main__ block
    validResult,   \* what validate_config returned: "None" before the call
    errorMsg,      \* the variables named by validate_config's ERROR message
    warned,        \* the variables named by its WARNING message
    reported,      \* the Azure deployments validate_config printed
    exitCode,      \* the process exit status, -1 while it runs
    llms,          \* the LLM instances created so far
    pipelinesRun,  \* the selected pipelines were run (LLM calls made)
    published,     \* the dataset was pushed to the Hub
    \* ---- AzureTokenManager / AzureLLM (azure_llm.py) ----
    now,               \* datetime.now(), in seconds since the instance was built
    token,             \* token_manager.token: 0 for None, else the k-th token issued
    token_expires_at,  \* token_manager.token_expires_at
    issued,            \* how many tokens Azure AD has issued to this manager
    clientKey,         \* client.api_key
    authHeader,        \* extra_headers["Authorization"] of the call, 0 = none
    installed,         \* what client.chat.completions.create is bound to
    apc,               \* position in AzureLLM.run / azure_create
    attempts,          \* the original_create calls of the current azure_create
    caught,            \* the error the first attempt raised
    createResult,      \* how the current azure_create call ended
    \* ---- run_datadreamer_session: --pipelines and --num (all_pipelines.py) ----
    pipelinesArg,  \* args.pipelines: the class names given, in the order given
    numArg,        \* args.num, as the sequence of its characters
    pipelines,     \* the filtered pipelines dict: class names in dict order
    nums,          \* the list nums
    npc,           \* position in the argument handling
    argError,      \* the exception that ended the session, "none" if none
    started,       \* the pipelines constructed so far, each with its "n"
    \* ---- convert_dataset_to_jsonl (convert.py) ----
    dataset,             \* the rows of the loaded dataset
    datasetExists,       \* dataset_path.exists()
    cidx,                \* rows converted so far; the next row's idx
    lines,               \* the JSONL file: one row_dict per line written
    files,               \* the names of the files in the images directory
    img_counter_dict,    \* key -> images counted under it
    saved,               \* history: the save_image_to_file calls that wrote
    total_images_saved,  \* the sum of row_image_count
    cpc,                 \* position in convert_dataset_to_jsonl
    cresult,             \* what it returned: "none" while it runs
    \* ---- two overlapping execute_code_and_generate_image invocations ----
    opc,        \* opc[i]: position of invocation i in the wrapper
    oalarm,     \* the process's one alarm: who armed it, seconds left
    oelapsed,   \* oelapsed[i]: seconds invocation i has spent in its try body
    ocalls,     \* history: the signal.alarm calls made, in order
    \* ---- overlapping run calls on one LLM instance (azure_llm.py, proxy_llm_*.py) ----
    llmClass,         \* the class of the instance: "AzureLLM" or "ProxyLLM"
    create,           \* client.chat.completions.create: the wrappers installed over the original method, innermost first
    rpc,              \* rpc[t]: position of caller t in run
    original_create,  \* original_create[t]: the local of caller t
    runsDone,         \* runsDone[t]: run calls caller t has completed
    before,           \* history: create when caller t entered run
    overlapped,       \* history: a run call began while another was in progress
    \* ---- run_datadreamer_session: the LLMs --llm and --code_llm select ----
    llmArg,           \* args.llm
    codeLlmArg,       \* args.code_llm
    llm,              \* the main LLM instance
    code_llm,         \* the code LLM instance
    \* ---- convert.py main: the datasets of a run ----
    batch,            \* TRUE: every discovered dataset is converted; FALSE: --dataset names one
    discovered,       \* len(datasets)
    outcomes,         \* history: what convert_dataset_to_jsonl returned, per dataset
    success_count,    \* main: success_count
    \* ---- AzureTokenManager.get_token called from several threads ----
    lock,             \* self.lock: 0 when free, else the thread that holds it
    lpc,              \* lpc[t]: position of thread t in get_token
    lsite,            \* lsite[t]: where thread t called get_token from
    lcalls,           \* lcalls[t]: get_token calls thread t has made
    lgot,             \* lgot[t]: what the last call of thread t returned (0: nothing)
    requests          \* history: the token requests sent

pipeVars == <<rows, idx, pc, cwd, original_dir, handler, alarm, armed, firedAt,
              thrown, rendered, image, exc, escaped, out, mapState, filtered,
              logged>>

mainVars == <<env, mpc, validResult, errorMsg, warned, reported, exitCode,
              llms, pipelinesRun, published>>

azVars == <<now, token, token_expires_at, issued, clientKey, authHeader,
            installed, apc, attempts, caught, createResult>>

argVars == <<pipelinesArg, numArg, pipelines, nums, npc, argError, started>>

convVars == <<dataset, datasetExists, cidx, lines, files, img_counter_dict,
              saved, total_images_saved, cpc, cresult>>

ovVars == <<opc, oalarm, oelapsed, ocalls>>

patchVars == <<llmClass, create, rpc, original_create, runsDone, before, overlapped>>

selVars == <<llmArg, codeLlmArg, llm, code_llm>>

batchVars == <<batch, discovered, outcomes, success_count>>

lockVars == <<lock, lpc, lsite, lcalls, lgot, requests>>

vars == <<pipeVars, mainVars, azVars, argVars, convVars, ovVars, patchVars, selVars, batchVars, lockVars>>

\* the part of the state each specification leaves alone
PipeFrame == UNCHANGED <<mainVars, azVars, argVars, convVars, ovVars, patchVars, selVars, batchVars, lockVars>>
MainFrame == UNCHANGED <<pipeVars, azVars, argVars, convVars, ovVars, patchVars, selVars, batchVars, lockVars>>
AzureFrame == UNCHANGED <<pipeVars, mainVars, argVars, convVars, ovVars, patchVars, selVars, batchVars, lockVars>>
ArgFrame == UNCHANGED <<pipeVars, mainVars, azVars, convVars, ovVars, patchVars, selVars, batchVars, lockVars>>
ConvertFrame == UNCHANGED <<pipeVars, mainVars, azVars, argVars, ovVars, patchVars, selVars, batchVars, lockVars>>
OverlapFrame == UNCHANGED <<pipeVars, mainVars, azVars, argVars, convVars, patchVars, selVars, batchVars, lockVars>>
PatchFrame == UNCHANGED <<pipeVars, mainVars, azVars, argVars, convVars, ovVars, selVars, batchVars, lockVars>>
SelFrame == UNCHANGED <<pipeVars, mainVars, azVars, argVars, convVars, ovVars, patchVars, batchVars, lockVars>>
BatchFrame == UNCHANGED <<pipeVars, mainVars, azVars, argVars, ovVars, patchVars, selVars, lockVars>>
LockFrame == UNCHANGED <<pipeVars, mainVars, argVars, convVars, ovVars, patchVars, selVars, batchVars>>

-----------------------------------------------------------------------------
(* Bounds *)

NumRows == 2

\* how many environment variables besides API_MODE are absent or empty
MaxMissing == 2

\* how often the clock advances, and by how many seconds each time
MaxTicks == 3
ClockStep == 1650

\* how many pipelines --pipelines names, and how many characters --num has
MaxPipelines == 2
MaxNumLen == 3

\* how many rows a dataset has
MaxDatasetRows == 2

\* the dataset directories discover_datasets finds
MaxDatasets == 2

\* overlapping invocations: the seconds that pass in one step, and how long
\* a renderer is watched
OverlapStep == 10
MaxElapsed == 40

\* run calls each thread makes on the LLM instance
MaxRunCalls == 2

\* get_token calls the threads make, the token requests these lead to, and
\* the clock steps they are spread over
MaxGetCalls == 3
MaxRequests == 2
MaxLockTicks == 4

-----------------------------------------------------------------------------
(* Generate Images: execute_code_and_generate_image *)

\* the default of the wrapper's timeout parameter, in seconds
Timeout == 20

\* How rendering one row can go: the renderer returns a PIL image and
\* process_image succeeds; the renderer raises; it returns something that is
\* no PIL image; process_image raises; the renderer never returns by itself.
RowKinds == {"ok", "raises", "nonimage", "procfail", "hangs"}

StartDir == "session"
TempDir  == "tmp"

TryPcs == {"render", "check", "process"}

InitPipe ==
    /\ rows \in [1..NumRows -> RowKinds]
    /\ idx = 1
    /\ pc = "getcwd"
    /\ cwd = StartDir
    /\ original_dir = "unset"
    /\ handler = "SIG_DFL"
    /\ alarm = 0
    /\ armed = FALSE
    /\ firedAt = "none"
    /\ thrown = "none"
    /\ rendered = "none"
    /\ image = "unset"
    /\ exc = "none"
    /\ escaped = "none"
    /\ out = <<>>
    /\ mapState = "mapping"
    /\ filtered = <<>>
    /\ logged = FALSE

\* original_dir = os.getcwd()
GetCwd ==
    /\ mapState = "mapping" /\ pc = "getcwd"
    /\ original_dir' = cwd
    /\ pc' = "chdir"
    /\ UNCHANGED <<rows, idx, cwd, handler, alarm, armed, firedAt, thrown,
                   rendered, image, exc, escaped, out, mapState, filtered, logged>>
    /\ PipeFrame

\* os.chdir(tempfile.mkdtemp())
ChdirTemp ==
    /\ mapState = "mapping" /\ pc = "chdir"
    /\ cwd' = TempDir
    /\ pc' = "signal"
    /\ UNCHANGED <<rows, idx, original_dir, handler, alarm, armed, firedAt,
                   thrown, rendered, image, exc, escaped, out, mapState,
                   filtered, logged>>
    /\ PipeFrame

\* signal.signal(signal.SIGALRM, timeout_handler)
InstallHandler ==
    /\ mapState = "mapping" /\ pc = "signal"
    /\ handler' = "timeout_handler"
    /\ pc' = "alarm"
    /\ UNCHANGED <<rows, idx, cwd, original_dir, alarm, armed, firedAt, thrown,
                   rendered, image, exc, escaped, out, mapState, filtered, logged>>
    /\ PipeFrame

\* signal.alarm(timeout)
ArmAlarm ==
    /\ mapState = "mapping" /\ pc = "alarm"
    /\ alarm' = Timeout
    /\ armed' = TRUE
    /\ pc' = "enter_try"
    /\ UNCHANGED <<rows, idx, cwd, original_dir, handler, firedAt, thrown,
                   rendered, image, exc, escaped, out, mapState, filtered, logged>>
    /\ PipeFrame

\* try: with warnings.catch_warnings(): warnings.simplefilter("ignore")
EnterTry ==
    /\ mapState = "mapping" /\ pc = "enter_try"
    /\ pc' = "render"
    /\ UNCHANGED <<rows, idx, cwd, original_dir, handler, alarm, armed, firedAt,
                   thrown, rendered, image, exc, escaped, out, mapState,
                   filtered, logged>>
    /\ PipeFrame

\* image = render_latex(row["code"]); a renderer that hangs takes no step.
Render ==
    /\ mapState = "mapping" /\ pc = "render"
    /\ rows[idx] # "hangs"
    /\ IF rows[idx] = "raises"
         THEN /\ thrown' = "render"
              /\ pc' = "exc_other"
              /\ UNCHANGED rendered
         ELSE /\ rendered' = IF rows[idx] = "nonimage" THEN "other" ELSE "pil"
              /\ pc' = "check"
              /\ UNCHANGED thrown
    /\ UNCHANGED <<rows, idx, cwd, original_dir, handler, alarm, armed, firedAt,
                   image, exc, escaped, out, mapState, filtered, logged>>
    /\ PipeFrame

\* if not isinstance(image, Image.Image): raise TypeError()
CheckType ==
    /\ mapState = "mapping" /\ pc = "check"
    /\ IF rendered = "pil"
         THEN pc' = "process" /\ UNCHANGED thrown
         ELSE pc' = "exc_other" /\ thrown' = "TypeError"
    /\ UNCHANGED <<rows, idx, cwd, original_dir, handler, alarm, armed, firedAt,
                   rendered, image, exc, escaped, out, mapState, filtered, logged>>
    /\ PipeFrame

\* row["image"] = process_image(image)
ProcessImage ==
    /\ mapState = "mapping" /\ pc = "process"
    /\ IF rows[idx] = "procfail"
         THEN /\ thrown' = "process"
              /\ pc' = "exc_other"
              /\ UNCHANGED image
         ELSE /\ image' = "img"
              /\ pc' = "disarm"
              /\ UNCHANGED thrown
    /\ UNCHANGED <<rows, idx, cwd, original_dir, handler, alarm, armed, firedAt,
                   rendered, exc, escaped, out, mapState, filtered, logged>>
    /\ PipeFrame

HandleTimeoutReraises ==
    /\ mapState = "mapping" /\ pc = "exc_timeout"
    /\ exc' = "TimeoutException"
    /\ pc' = "disarm"
    /\ UNCHANGED <<rows, idx, cwd, original_dir, handler, alarm, armed, firedAt,
                   thrown, rendered, image, escaped, out, mapState, filtered,
                   logged>>
    /\ PipeFrame

\* except TimeoutException: print(...); row["image"] = None
HandleTimeout ==
    /\ mapState = "mapping" /\ pc = "exc_timeout"
    /\ image' = "None"
    /\ pc' = "disarm"
    /\ UNCHANGED <<rows, idx, cwd, original_dir, handler, alarm, armed, firedAt,
                   thrown, rendered, exc, escaped, out, mapState, filtered,
                   logged>>
    /\ PipeFrame

\* except Exception as e: print(...); row["image"] = None
HandleOther ==
    /\ mapState = "mapping" /\ pc = "exc_other"
    /\ image' = "None"
    /\ pc' = "disarm"
    /\ UNCHANGED <<rows, idx, cwd, original_dir, handler, alarm, armed, firedAt,
                   thrown, rendered, exc, escaped, out, mapState, filtered,
                   logged>>
    /\ PipeFrame

\* timeout_handler: SIGALRM is delivered while the alarm is pending and the
\* handler raises TimeoutException at the statement the wrapper is at.
\*   before the try is entered: nothing catches it, it leaves the wrapper;
\*   in the try body: the except TimeoutException clause takes it;
\*   in the except Exception clause: it is raised out of the clause, the
\*     finally block runs and then it leaves the wrapper;
\*   in the finally block before signal.alarm(0): it is raised out of the
\*     finally block, whose remaining statement is skipped.
AlarmFires ==
    /\ mapState = "mapping"
    /\ alarm > 0
    /\ handler = "timeout_handler"
    /\ pc \in {"enter_try", "exc_other", "disarm"} \cup TryPcs
    /\ alarm' = 0
    /\ firedAt' = pc
    /\ pc' = CASE pc \in TryPcs -> "exc_timeout"
               [] pc = "exc_other" -> "disarm"
               [] OTHER -> "raised"
    /\ exc' = IF pc = "exc_other" THEN "TimeoutException" ELSE exc
    /\ escaped' = IF pc \in {"enter_try", "disarm"}
                    THEN "TimeoutException" ELSE escaped
    /\ UNCHANGED <<rows, idx, cwd, original_dir, handler, armed, thrown,
                   rendered, image, out, mapState, filtered, logged>>
    /\ PipeFrame

DisarmForgotten ==
    /\ mapState = "mapping" /\ pc = "disarm"
    /\ pc' = "restore"
    /\ UNCHANGED <<rows, idx, cwd, original_dir, handler, alarm, armed, firedAt,
                   thrown, rendered, image, exc, escaped, out, mapState,
                   filtered, logged>>
    /\ PipeFrame

\* finally: signal.alarm(0)
Disarm ==
    /\ mapState = "mapping" /\ pc = "disarm"
    /\ alarm' = 0
    /\ pc' = "restore"
    /\ UNCHANGED <<rows, idx, cwd, original_dir, handler, armed, firedAt,
                   thrown, rendered, image, exc, escaped, out, mapState,
                   filtered, logged>>
    /\ PipeFrame

\* finally: os.chdir(original_dir); then the exception in flight, if any,
\* goes on, else control reaches return row.
RestoreDir ==
    /\ mapState = "mapping" /\ pc = "restore"
    /\ cwd' = original_dir
    /\ IF exc = "none"
         THEN pc' = "return" /\ UNCHANGED escaped
         ELSE pc' = "raised" /\ escaped' = exc
    /\ UNCHANGED <<rows, idx, original_dir, handler, alarm, armed, firedAt,
                   thrown, rendered, image, exc, out, mapState, filtered, logged>>
    /\ PipeFrame

-----------------------------------------------------------------------------
(* The map step and the filter step of GenerateDiagram.run *)

\* combined.map(execute_code_and_generate_image, lazy=False): the wrapper
\* returned row; the step keeps it and calls the wrapper on the next row.
ReturnRow ==
    /\ mapState = "mapping" /\ pc = "return"
    /\ out' = Append(out, [id |-> idx, image |-> image])
    /\ IF idx < Len(rows)
         THEN idx' = idx + 1 /\ pc' = "getcwd" /\ UNCHANGED mapState
         ELSE mapState' = "done" /\ pc' = "idle" /\ UNCHANGED idx
    /\ original_dir' = "unset"
    /\ armed' = FALSE
    /\ firedAt' = "none"
    /\ thrown' = "none"
    /\ rendered' = "none"
    /\ image' = "unset"
    /\ UNCHANGED <<rows, cwd, handler, alarm, exc, escaped, filtered, logged>>
    /\ PipeFrame

\* an exception left the wrapper: nothing in run() catches it, the step ends.
MapAborts ==
    /\ mapState = "mapping" /\ pc = "raised"
    /\ mapState' = "aborted"
    /\ UNCHANGED <<rows, idx, pc, cwd, original_dir, handler, alarm, armed,
                   firedAt, thrown, rendered, image, exc, escaped, out,
                   filtered, logged>>
    /\ PipeFrame

ValidRow(row) == row.image # "None"

FilterKeepsInvalid ==
    /\ mapState = "done"
    /\ filtered' = SelectSeq(out, LAMBDA row : TRUE)
    /\ logged' = (Len(filtered') < Len(out))
    /\ mapState' = "filtered"
    /\ UNCHANGED <<rows, idx, pc, cwd, original_dir, handler, alarm, armed,
                   firedAt, thrown, rendered, image, exc, escaped, out>>
    /\ PipeFrame

\* code_and_images.filter(lambda row: row["image"] is not None), then the
\* logger.info(...) under  filtered.num_rows < code_and_images.num_rows
Filter ==
    /\ mapState = "done"
    /\ filtered' = SelectSeq(out, ValidRow)
    /\ logged' = (Len(filtered') < Len(out))
    /\ mapState' = "filtered"
    /\ UNCHANGED <<rows, idx, pc, cwd, original_dir, handler, alarm, armed,
                   firedAt, thrown, rendered, image, exc, escaped, out>>
    /\ PipeFrame

-----------------------------------------------------------------------------
(* main.py: the environment and validate_config *)

\* os.environ holds no entry for the variable (os.getenv gives None)
Unset == "<unset>"

ModeVars == {"API_MODE"}

OfficialVars == <<"OPENAI_API_KEY", "ANTHROPIC_API_KEY">>
ProxyVars == <<"PROXY_API_KEY", "PROXY_BASE_URL">>
AzureVars == <<"AZURE_OPENAI_TENANT_ID", "AZURE_OPENAI_CLIENT_ID",
               "AZURE_OPENAI_CLIENT_SECRET", "AZURE_OPENAI_ENDPOINT",
               "AZURE_OPENAI_API_VERSION">>
DeploymentVars == <<"AZURE_OPENAI_DEPLOYMENT", "AZURE_OPENAI_MINI_DEPLOYMENT",
                    "AZURE_ANTHROPIC_DEPLOYMENT">>

Range(seq) == {seq[i] : i \in 1..Len(seq)}

CredentialVars == Range(OfficialVars) \cup Range(ProxyVars) \cup Range(AzureVars)
EnvVars == ModeVars \cup CredentialVars \cup Range(DeploymentVars)

\* the values API_MODE is tried with; "bogus" stands for any other string
ApiModeValues == {Unset, "", "official", "proxy", "azure", "bogus"}

\* the value a variable has when it is set to something
PresentValue(var) ==
    IF var \in Range(DeploymentVars) THEN "my-deployment" ELSE "value"

\* os.getenv(var, default): the default only when the variable is absent;
\* a variable set to the empty string gives the empty string.
Getenv(var, default) == IF env[var] = Unset THEN default ELSE env[var]

\* Python truth of os.getenv(var): None and "" are false
Truthy(var) == env[var] # Unset /\ env[var] # ""

\* api_mode = os.getenv("API_MODE", "official")
ApiMode == Getenv("API_MODE", "official")

ValidModes == {"official", "proxy", "azure"}

\* required_vars of the branch validate_config takes
RequiredVars(mode) ==
    CASE mode = "official" -> OfficialVars
      [] mode = "proxy" -> ProxyVars
      [] mode = "azure" -> AzureVars
      [] OTHER -> <<>>

MissingVarsNoneOnly(mode) ==
    SelectSeq(RequiredVars(mode), LAMBDA var : env[var] = Unset)

\* missing_vars = [var for var in required_vars if not os.getenv(var)]
MissingVars(mode) ==
    SelectSeq(RequiredVars(mode), LAMBDA var : ~Truthy(var))

\* missing_deployments = [var for var in deployment_vars if not os.getenv(var)]
MissingDeployments ==
    SelectSeq(DeploymentVars, LAMBDA var : ~Truthy(var))

\* the return value of validate_config
validate_config ==
    IF ApiMode \in ValidModes THEN MissingVars(ApiMode) = <<>> ELSE FALSE

PyBool(b) == IF b THEN "True" ELSE "False"

\* the defaults validate_config prints under "Azure Deployments:"
ReportedDefault(var) ==
    CASE var = "AZURE_OPENAI_DEPLOYMENT" -> "gpt-4o (default)"
      [] var = "AZURE_OPENAI_MINI_DEPLOYMENT" -> "gpt-4o-mini (default)"
      [] var = "AZURE_ANTHROPIC_DEPLOYMENT" -> "gpt-4 (default)"

NothingReported == [var \in Range(DeploymentVars) |-> "<not printed>"]

MainIdle ==
    /\ env = [var \in EnvVars |-> Unset]
    /\ mpc = "off"
    /\ validResult = "None"
    /\ errorMsg = <<>>
    /\ warned = <<>>
    /\ reported = NothingReported
    /\ exitCode = -1
    /\ llms = <<>>
    /\ pipelinesRun = FALSE
    /\ published = FALSE

\* The process starts with some environment: API_MODE is any of its values,
\* and at most MaxMissing of the other variables are absent or empty.
InitMain ==
    /\ \E mode \in ApiModeValues :
       \E S \in {T \in SUBSET (EnvVars \ ModeVars) : Cardinality(T) <= MaxMissing} :
       \E f \in [S -> {Unset, ""}] :
          env = [var \in EnvVars |->
                    IF var \in ModeVars THEN mode
                    ELSE IF var \in S THEN f[var] ELSE PresentValue(var)]
    /\ mpc = "start"
    /\ validResult = "None"
    /\ errorMsg = <<>>
    /\ warned = <<>>
    /\ reported = NothingReported
    /\ exitCode = -1
    /\ llms = <<>>
    /\ pipelinesRun = FALSE
    /\ published = FALSE

\* validate_config(): the whole function, its prints included
ValidateConfig ==
    /\ mpc = "start"
    /\ validResult' = PyBool(validate_config)
    /\ errorMsg' = IF ApiMode \in ValidModes THEN MissingVars(ApiMode)
                   ELSE <<"API_MODE">>
    /\ warned' = IF ApiMode = "azure" /\ validate_config
                   THEN MissingDeployments ELSE <<>>
    /\ reported' = IF ApiMode = "azure" /\ validate_config
                     THEN [var \in Range(DeploymentVars) |->
                              Getenv(var, ReportedDefault(var))]
                     ELSE NothingReported
    /\ mpc' = "check"
    /\ UNCHANGED <<env, exitCode, llms, pipelinesRun, published>>
    /\ MainFrame

CheckValidNoExit ==
    /\ mpc = "check"
    /\ mpc' = "session"
    /\ UNCHANGED <<env, validResult, errorMsg, warned, reported, exitCode, llms,
                   pipelinesRun, published>>
    /\ MainFrame

\* if not validate_config(): exit(1)   -- else the prints and main(args)
CheckValid ==
    /\ mpc = "check"
    /\ IF validResult = "False"
         THEN mpc' = "exited" /\ exitCode' = 1
         ELSE mpc' = "session" /\ UNCHANGED exitCode
    /\ UNCHANGED <<env, validResult, errorMsg, warned, reported, llms,
                   pipelinesRun, published>>
    /\ MainFrame

-----------------------------------------------------------------------------
(* run_datadreamer_session: the LLM instances, the pipelines, the upload *)

\* openai_model, openai_mini_model, anthropic_model with OPENAI_MODEL,
\* OPENAI_MINI_MODEL and ANTHROPIC_MODEL left at their defaults
ModelNames == <<"gpt-4o", "gpt-4o-mini", "claude-3-7-sonnet-20250219">>

MappedModels == {"gpt-4o", "gpt-4o-mini", "claude-sonnet", "claude-3-sonnet",
                 "claude-3-7-sonnet-20250219"}

\* AzureLLM._get_deployment_mapping
deployment_mapping ==
    [model \in MappedModels |->
        CASE model = "gpt-4o" -> Getenv("AZURE_OPENAI_DEPLOYMENT", "gpt-4o")
          [] model = "gpt-4o-mini" ->
                Getenv("AZURE_OPENAI_MINI_DEPLOYMENT", "gpt-4o-mini")
          [] OTHER -> Getenv("AZURE_ANTHROPIC_DEPLOYMENT", "gpt-4o")]

\* AzureLLM._get_deployment_name
deployment_name(model) ==
    IF model \in DOMAIN deployment_mapping
      THEN deployment_mapping[model] ELSE model

\* AzureLLM.__init__: if not all([tenant_id, client_id, client_secret,
\* endpoint]): raise ValueError
AzureConfigComplete ==
    /\ Truthy("AZURE_OPENAI_TENANT_ID")
    /\ Truthy("AZURE_OPENAI_CLIENT_ID")
    /\ Truthy("AZURE_OPENAI_CLIENT_SECRET")
    /\ Truthy("AZURE_OPENAI_ENDPOINT")

\* create_llm_instance can build an instance in this mode
CanCreate ==
    /\ ApiMode \in ValidModes
    /\ ApiMode = "azure" => AzureConfigComplete

\* gpt_4o, gpt_4o_mini, claude_sonnet = create_llm_instance(...), in this
\* order; a constructor that raises (no mode, incomplete Azure settings, a
\* failed token request) is re-raised and ends the program.
CreateLLM ==
    /\ mpc = "session"
    /\ Len(llms) < Len(ModelNames)
    /\ \/ /\ CanCreate
          /\ llms' = Append(llms,
                [model |-> ModelNames[Len(llms) + 1],
                 mode |-> ApiMode,
                 deployment |-> IF ApiMode = "azure"
                                  THEN deployment_name(ModelNames[Len(llms) + 1])
                                  ELSE "<none>"])
          /\ UNCHANGED <<mpc, exitCode>>
       \/ /\ mpc' = "crashed"
          /\ exitCode' = 1
          /\ UNCHANGED llms
    /\ UNCHANGED <<env, validResult, errorMsg, warned, reported, pipelinesRun,
                   published>>
    /\ MainFrame

\* what --llm and --code_llm are given: the keys of llm_mapping, the
\* "gpt-4" of the options' help text, and a name only the Azure deployment
\* mapping knows
LlmNames == {"gpt-4o", "gpt-4o-mini", "claude-3-7-sonnet-20250219",
             "claude-sonnet", "gpt-4", "claude-3-sonnet"}

Unparsed == "<unparsed>"
\* no instance bound yet
Unselected == [model |-> "<unselected>"]

SelIdle ==
    /\ llmArg = Unparsed
    /\ codeLlmArg = Unparsed
    /\ llm = Unselected
    /\ code_llm = Unselected

\* the instances in the order they are created
gpt_4o == llms[1]
gpt_4o_mini == llms[2]
claude_sonnet == llms[3]

\* llm_mapping = {"gpt-4o": gpt_4o, "gpt-4o-mini": gpt_4o_mini,
\*                "claude-3-7-sonnet-20250219": claude_sonnet,
\*                "claude-sonnet": claude_sonnet}
llm_mapping ==
    [name \in {"gpt-4o", "gpt-4o-mini", "claude-3-7-sonnet-20250219",
               "claude-sonnet"} |->
        CASE name = "gpt-4o" -> gpt_4o
          [] name = "gpt-4o-mini" -> gpt_4o_mini
          [] OTHER -> claude_sonnet]

\* a lookup that leaves the LLM unset for a name that is no key
SelectOrNone(name, default) ==
    IF name \in DOMAIN llm_mapping THEN llm_mapping[name] ELSE Unselected

\* if args.llm in llm_mapping: llm = llm_mapping[args.llm]
\* else: print(...); llm = gpt_4o
SelectInstance(name, default) ==
    IF name \in DOMAIN llm_mapping THEN llm_mapping[name] ELSE default

\* "Select main LLM" and "Select code LLM", for the --llm and --code_llm of
\* the command line
SelectLLMs ==
    /\ mpc = "session"
    /\ Len(llms) = Len(ModelNames)
    /\ llmArg = Unparsed
    /\ \E l, c \in LlmNames :
          /\ llmArg' = l
          /\ codeLlmArg' = c
          /\ llm' = SelectInstance(l, gpt_4o)
          /\ code_llm' = SelectInstance(c, claude_sonnet)
    /\ SelFrame

\* synthetic_visuals = [pipeline(...) ...]; concat(...): the LLM calls
RunPipelines ==
    /\ mpc = "session"
    /\ Len(llms) = Len(ModelNames)
    /\ llmArg # Unparsed
    /\ ~pipelinesRun
    /\ pipelinesRun' = TRUE
    /\ \/ UNCHANGED <<mpc, exitCode>>
       \/ mpc' = "crashed" /\ exitCode' = 1
    /\ UNCHANGED <<env, validResult, errorMsg, warned, reported, llms, published>>
    /\ MainFrame

\* scifi_dataset.publish_to_hf_hub(args.name, private=True)
Publish ==
    /\ mpc = "session"
    /\ pipelinesRun
    /\ \/ published' = TRUE /\ mpc' = "finished" /\ exitCode' = 0
       \/ mpc' = "crashed" /\ exitCode' = 1 /\ UNCHANGED published
    /\ UNCHANGED <<env, validResult, errorMsg, warned, reported, llms,
                   pipelinesRun>>
    /\ MainFrame

-----------------------------------------------------------------------------
(* azure_llm.py: AzureTokenManager *)

\* token_data.get("expires_in", 3600)
ExpiresIn == 3600

\* the token is renewed this many seconds before it expires
RefreshMargin == 300

\* the state once AzureLLM.__init__ has run: the manager fetched its first
\* token and the client was built with it
InitAzure ==
    /\ now = 0
    /\ token = 1
    /\ issued = 1
    /\ token_expires_at = ExpiresIn - RefreshMargin
    /\ clientKey = 1
    /\ authHeader = 0
    /\ installed = "original_create"
    /\ apc = "idle"
    /\ attempts = <<>>
    /\ caught = "none"
    /\ createResult = "none"

AzureIdle ==
    /\ now = 0
    /\ token = 0
    /\ issued = 0
    /\ token_expires_at = 0
    /\ clientKey = 0
    /\ authHeader = 0
    /\ installed = "original_create"
    /\ apc = "off"
    /\ attempts = <<>>
    /\ caught = "none"
    /\ createResult = "none"

\* time passes
Tick ==
    /\ apc # "off"
    /\ now < MaxTicks * ClockStep
    /\ now' = now + ClockStep
    /\ UNCHANGED <<token, token_expires_at, issued, clientKey, authHeader,
                   installed, apc, attempts, caught, createResult>>
    /\ AzureFrame

\* a get_token that lets the token live until after its renewal time
NeedsRefreshWhenPast == token = 0 \/ now > token_expires_at

\* get_token: if self.token is None or datetime.now() >= self.token_expires_at
NeedsRefresh == token = 0 \/ now >= token_expires_at

\* get_token with a _refresh_token whose request succeeds: the manager's
\* token, expiry and issue count afterwards (the token is the return value)
TokenAfterGet == IF NeedsRefresh THEN issued + 1 ELSE token
IssuedAfterGet == IF NeedsRefresh THEN issued + 1 ELSE issued
ExpiryAfterGet ==
    IF NeedsRefresh THEN now + ExpiresIn - RefreshMargin ELSE token_expires_at

\* the errors original_create can raise, by what str(e) contains
Errors == {"401", "NotFound", "401 and NotFound", "other"}

IsAuthError(e) == e \in {"401", "401 and NotFound"}
IsNotFound(e) == e \in {"NotFound", "401 and NotFound"}

-----------------------------------------------------------------------------
(* azure_llm.py: AzureLLM.run and its azure_create *)

\* run: self._refresh_client_token() -- get_token, then client.api_key (and
\* the default Authorization header) is set to what it returned; a token
\* request that fails raises out of run before anything is patched.
RunRefresh ==
    /\ apc = "idle"
    /\ \/ /\ token' = TokenAfterGet
          /\ issued' = IssuedAfterGet
          /\ token_expires_at' = ExpiryAfterGet
          /\ clientKey' = TokenAfterGet
          /\ apc' = "patch"
       \/ /\ NeedsRefresh
          /\ apc' = "run_raised"
          /\ UNCHANGED <<token, issued, token_expires_at, clientKey>>
    /\ createResult' = "none"
    /\ attempts' = <<>>
    /\ caught' = "none"
    /\ authHeader' = 0
    /\ UNCHANGED <<now, installed>>
    /\ AzureFrame

\* original_create = self.client.chat.completions.create
\* self.client.chat.completions.create = azure_create
Patch ==
    /\ apc = "patch"
    /\ installed' = "azure_create"
    /\ apc' = "in_run"
    /\ UNCHANGED <<now, token, token_expires_at, issued, clientKey, authHeader,
                   attempts, caught, createResult>>
    /\ AzureFrame

\* super().run(prompts, **kwargs) calls client.chat.completions.create
CallCreate ==
    /\ apc = "in_run"
    /\ installed = "azure_create"
    /\ attempts' = <<>>
    /\ caught' = "none"
    /\ createResult' = "none"
    /\ authHeader' = 0
    /\ apc' = "first_try"
    /\ UNCHANGED <<now, token, token_expires_at, issued, clientKey, installed>>
    /\ AzureFrame

\* one original_create(**create_kwargs) call, as the provider sees it
Attempt == [key |-> clientKey, header |-> authHeader, issued |-> issued]

\* try: return original_create(**create_kwargs)
\* except Exception as e: the three branches on str(e)
FirstAttempt ==
    /\ apc = "first_try"
    /\ attempts' = Append(attempts, Attempt)
    /\ \/ /\ createResult' = "returned"
          /\ apc' = "in_run"
          /\ UNCHANGED caught
       \/ \E e \in Errors :
             /\ caught' = e
             /\ IF IsAuthError(e)
                  THEN apc' = "auth_refresh" /\ UNCHANGED createResult
                  ELSE /\ apc' = "unwind"
                       /\ createResult' = IF IsNotFound(e) THEN "ValueError" ELSE e
    /\ UNCHANGED <<now, token, token_expires_at, issued, clientKey, authHeader,
                   installed>>
    /\ AzureFrame

\* logger.warning("Authentication failed, refreshing token...")
\* self._refresh_client_token()
AuthRefresh ==
    /\ apc = "auth_refresh"
    /\ \/ /\ token' = TokenAfterGet
          /\ issued' = IssuedAfterGet
          /\ token_expires_at' = ExpiryAfterGet
          /\ clientKey' = TokenAfterGet
          /\ apc' = "auth_header"
          /\ UNCHANGED createResult
       \/ /\ NeedsRefresh
          /\ apc' = "unwind"
          /\ createResult' = "RefreshError"
          /\ UNCHANGED <<token, issued, token_expires_at, clientKey>>
    /\ UNCHANGED <<now, authHeader, installed, attempts, caught>>
    /\ AzureFrame

\* create_kwargs['extra_headers']['Authorization'] =
\*     f"Bearer {self.token_manager.get_token()}"
AuthHeader ==
    /\ apc = "auth_header"
    /\ \/ /\ token' = TokenAfterGet
          /\ issued' = IssuedAfterGet
          /\ token_expires_at' = ExpiryAfterGet
          /\ authHeader' = TokenAfterGet
          /\ apc' = "retry"
          /\ UNCHANGED createResult
       \/ /\ NeedsRefresh
          /\ apc' = "unwind"
          /\ createResult' = "RefreshError"
          /\ UNCHANGED <<token, issued, token_expires_at, authHeader>>
    /\ UNCHANGED <<now, clientKey, installed, attempts, caught>>
    /\ AzureFrame

\* return original_create(**create_kwargs), inside the except clause: what
\* it raises leaves azure_create
Retry ==
    /\ apc = "retry"
    /\ attempts' = Append(attempts, Attempt)
    /\ \/ /\ createResult' = "returned"
          /\ apc' = "in_run"
       \/ \E e \in Errors :
             /\ createResult' = e
             /\ apc' = "unwind"
    /\ UNCHANGED <<now, token, token_expires_at, issued, clientKey, authHeader,
                   installed, caught>>
    /\ AzureFrame

\* run: finally: self.client.chat.completions.create = original_create,
\* after super().run returned
RunReturns ==
    /\ apc = "in_run"
    /\ installed' = "original_create"
    /\ apc' = "idle"
    /\ UNCHANGED <<now, token, token_expires_at, issued, clientKey, authHeader,
                   attempts, caught, createResult>>
    /\ AzureFrame

\* run: the same finally, with the exception of azure_create going through
\* super().run
RunUnwinds ==
    /\ apc = "unwind"
    /\ installed' = "original_create"
    /\ apc' = "run_raised"
    /\ UNCHANGED <<now, token, token_expires_at, issued, clientKey, authHeader,
                   attempts, caught, createResult>>
    /\ AzureFrame

\* the caller of run got the exception; the instance can be used again
RunRaised ==
    /\ apc = "run_raised"
    /\ apc' = "idle"
    /\ UNCHANGED <<now, token, token_expires_at, issued, clientKey, authHeader,
                   installed, attempts, caught, createResult>>
    /\ AzureFrame

-----------------------------------------------------------------------------
(* all_pipelines.py: run_datadreamer_session, --pipelines and --num *)

\* the class names of the first entries of the pipelines dict, in dict order
Registry == <<"MatplotlibChartPipeline", "VegaLiteChartPipeline",
              "PlotlyChartPipeline">>

\* the names --pipelines is given: class names of the dict and one that is
\* not in it
PipelineNames == Range(Registry) \cup {"NoSuchPipeline"}

\* the characters --num is made of here
NumChars == {"1", "2", ","}
Digits == {"0", "1", "2", "3", "4", "5", "6", "7", "8", "9"}

DigitValue(c) ==
    CASE c = "0" -> 0 [] c = "1" -> 1 [] c = "2" -> 2 [] c = "3" -> 3
      [] c = "4" -> 4 [] c = "5" -> 5 [] c = "6" -> 6 [] c = "7" -> 7
      [] c = "8" -> 8 [] c = "9" -> 9

\* int(s) for a string of the characters above: the decimal value, and
\* ValueError (here -1) for an empty string or one with a comma in it
RECURSIVE DecimalValue(_)
DecimalValue(s) ==
    IF s = <<>> THEN 0
    ELSE 10 * DecimalValue(SubSeq(s, 1, Len(s) - 1)) + DigitValue(s[Len(s)])

int(s) ==
    IF s # <<>> /\ \A i \in 1..Len(s) : s[i] \in Digits
      THEN DecimalValue(s)
      ELSE -1

\* s.strip(","): s without its leading and trailing commas
RECURSIVE lstrip(_)
lstrip(s) == IF s # <<>> /\ s[1] = "," THEN lstrip(Tail(s)) ELSE s

RECURSIVE rstrip(_)
rstrip(s) ==
    IF s # <<>> /\ s[Len(s)] = "," THEN rstrip(SubSeq(s, 1, Len(s) - 1)) ELSE s

strip(s) == rstrip(lstrip(s))

\* [int(n.strip()) for n in args.num.strip(",")]: the iteration is over the
\* characters of the stripped string
NumsByStrip(s) == [i \in 1..Len(strip(s)) |-> int(<<strip(s)[i]>>)]

\* the sequences over S of length lo..hi
SeqsOf(S, lo, hi) == UNION {[1..n -> S] : n \in lo..hi}

\* {k: v for k, v in pipelines.items() if v.__name__ in [...]}: the entries
\* of the dict that are named, in the order of the dict
RECURSIVE SelectNamed(_, _)
SelectNamed(reg, names) ==
    IF reg = <<>> THEN <<>>
    ELSE (IF reg[1] \in names THEN <<reg[1]>> ELSE <<>>)
             \o SelectNamed(Tail(reg), names)

ArgIdle ==
    /\ pipelinesArg = <<>>
    /\ numArg = <<>>
    /\ pipelines = <<>>
    /\ nums = <<>>
    /\ npc = "off"
    /\ argError = "none"
    /\ started = <<>>

\* the parsed command line: argparse takes any string for either option
InitArgs ==
    /\ pipelinesArg \in {a \in SeqsOf(PipelineNames, 1, MaxPipelines) :
                             \A i, j \in 1..Len(a) : a[i] = a[j] => i = j}
    /\ numArg \in SeqsOf(NumChars, 1, MaxNumLen)
    /\ pipelines = <<>>
    /\ nums = <<>>
    /\ npc = "select"
    /\ argError = "none"
    /\ started = <<>>

\* pipelines = {k: v for k, v in pipelines.items() if v.__name__ in ...}
SelectPipelines ==
    /\ npc = "select"
    /\ pipelines' = SelectNamed(Registry, Range(pipelinesArg))
    /\ npc' = "parse"
    /\ UNCHANGED <<pipelinesArg, numArg, nums, argError, started>>
    /\ ArgFrame

\* if "," in args.num: nums = [...]; assert len(nums) == len(pipelines)
\* else: nums = [int(args.num)] * len(pipelines)
ParseNum ==
    /\ npc = "parse"
    /\ LET list == IF \E i \in 1..Len(numArg) : numArg[i] = ","
                     THEN NumsByStrip(numArg)
                   ELSE IF int(numArg) = -1 THEN <<-1>>
                   ELSE [i \in 1..Len(pipelines) |-> int(numArg)]
       IN  IF \E i \in 1..Len(list) : list[i] = -1
             THEN argError' = "ValueError" /\ npc' = "raised" /\ UNCHANGED nums
           ELSE IF Len(list) # Len(pipelines)
             THEN argError' = "AssertionError" /\ npc' = "raised"
                  /\ UNCHANGED nums
           ELSE nums' = list /\ npc' = "run" /\ UNCHANGED argError
    /\ UNCHANGED <<pipelinesArg, numArg, pipelines, started>>
    /\ ArgFrame

\* one element of the synthetic_visuals comprehension:
\* pipeline(pipeline_name, args={..., "n": num, ...})
\*     for num, (pipeline_name, pipeline) in zip(nums, pipelines.items())
StartPipeline ==
    /\ npc = "run"
    /\ Len(started) < Len(pipelines)
    /\ LET i == Len(started) + 1
       IN  started' = Append(started, [pipeline |-> pipelines[i], n |-> nums[i]])
    /\ UNCHANGED <<pipelinesArg, numArg, pipelines, nums, npc, argError>>
    /\ ArgFrame

\* concat(*synthetic_visuals, ...) once every pipeline was constructed
ConcatResults ==
    /\ npc = "run"
    /\ Len(started) = Len(pipelines)
    /\ npc' = "done"
    /\ UNCHANGED <<pipelinesArg, numArg, pipelines, nums, argError, started>>
    /\ ArgFrame

-----------------------------------------------------------------------------
(* convert.py: values, base64 and file names *)

\* A value of a cell, as process_value sees it, is a record with a kind:
\*   "none"       None
\*   "int", "str" a scalar; the text of a str is its sequence of code points
\*   "bytes"      a bytes object, v its sequence of bytes
\*   "list"       a list or array, v its items
\*   "dict"       a dict, names its keys in order and v their values
\*   "pil"        a PIL image, png what image.save(..., format='PNG') writes
\*   "timestamp"  an object json.dumps has no encoding for
\* and a value of a JSON line is one of the first five or an "image", the
\* dict process_value builds for an image.
PyNone == [kind |-> "none"]
PyInt(n) == [kind |-> "int", v |-> n]
PyStr(s) == [kind |-> "str", v |-> s]
PyBytes(b) == [kind |-> "bytes", v |-> b]
PyList(items) == [kind |-> "list", v |-> items]
PyDict(names, values) == [kind |-> "dict", names |-> names, v |-> values]
PILImage(png) == [kind |-> "pil", png |-> png]
Timestamp == [kind |-> "timestamp"]

\* value[key] of a dict that has the key
DictGet(d, key) ==
    d.v[CHOOSE i \in 1..Len(d.names) : d.names[i] = key]

\* the first and the last eight bytes of a PNG file
PngSignature == <<137, 80, 78, 71, 13, 10, 26, 10>>
PngTrailer == <<73, 69, 78, 68, 174, 66, 96, 130>>

\* n bytes that are no image
Filler(n) == [i \in 1..n |-> ((i - 1) * 37) % 256]

\* an n-byte PNG file, and one cut off before its end
PngFile(n) == PngSignature \o Filler(n - 16) \o PngTrailer
CutPngFile(n) == PngSignature \o Filler(n - 8)

\* Image.open(BytesIO(img_bytes)) reads the header: it raises unless the
\* bytes start as an image file does
Opens(b) == Len(b) >= 8 /\ SubSeq(b, 1, 8) = PngSignature

\* image.save of an opened image reads the rest: it raises on a file that
\* is cut off
Loads(b) == Len(b) >= 16 /\ SubSeq(b, Len(b) - 7, Len(b)) = PngTrailer

\* the code point of the i-th character of the base64 alphabet
B64Char(i) ==
    IF i < 26 THEN 65 + i
    ELSE IF i < 52 THEN 97 + (i - 26)
    ELSE IF i < 62 THEN 48 + (i - 52)
    ELSE IF i = 62 THEN 43 ELSE 47

\* base64 without the "=" padding of the last group
RECURSIVE b64encodeUnpadded(_)
b64encodeUnpadded(b) ==
    IF Len(b) = 0 THEN <<>>
    ELSE IF Len(b) = 1
      THEN <<B64Char(b[1] \div 4), B64Char((b[1] % 4) * 16)>>
    ELSE IF Len(b) = 2
      THEN <<B64Char(b[1] \div 4),
             B64Char((b[1] % 4) * 16 + b[2] \div 16),
             B64Char((b[2] % 16) * 4)>>
    ELSE <<B64Char(b[1] \div 4),
           B64Char((b[1] % 4) * 16 + b[2] \div 16),
           B64Char((b[2] % 16) * 4 + b[3] \div 64),
           B64Char(b[3] % 64)>> \o b64encodeUnpadded(SubSeq(b, 4, Len(b)))

\* base64.b64encode(b).decode('utf-8'): the text, as code points
RECURSIVE b64encode(_)
b64encode(b) ==
    IF Len(b) = 0 THEN <<>>
    ELSE IF Len(b) = 1
      THEN <<B64Char(b[1] \div 4), B64Char((b[1] % 4) * 16), 61, 61>>
    ELSE IF Len(b) = 2
      THEN <<B64Char(b[1] \div 4),
             B64Char((b[1] % 4) * 16 + b[2] \div 16),
             B64Char((b[2] % 16) * 4), 61>>
    ELSE <<B64Char(b[1] \div 4),
           B64Char((b[1] % 4) * 16 + b[2] \div 16),
           B64Char((b[2] % 16) * 4 + b[3] \div 64),
           B64Char(b[3] % 64)>> \o b64encode(SubSeq(b, 4, Len(b)))

\* value.decode('utf-8') succeeds: of the byte strings used here, the ones
\* of ASCII bytes only (the others hold a byte that starts no UTF-8 sequence)
Utf8Valid(b) == \A i \in 1..Len(b) : b[i] < 128

\* is_datadreamer_image_format: the bytes are "usually long"
ImageThreshold == 100

is_datadreamer_image_format(value) ==
    /\ value.kind = "dict"
    /\ \E i \in 1..Len(value.names) : value.names[i] = "bytes"
    /\ DictGet(value, "bytes").kind = "bytes"
    /\ Len(DictGet(value, "bytes").v) > ImageThreshold

\* f"{n:0{w}d}" for n >= 0
Pad(n, w) ==
    LET s == ToString(n)
    IN  IF Len(s) >= w THEN s ELSE SubSeq("000000", 1, w - Len(s)) \o s

\* a file name whose counter has two digits
FilenameShortCounter(row_idx, col_name, img_counter) ==
    "row_" \o Pad(row_idx, 6) \o "_" \o col_name \o "_" \o Pad(img_counter, 2)
        \o ".png"

\* save_image_to_file:
\* filename = f"row_{row_idx:06d}_{col_name}_{img_counter:03d}.png"
Filename(row_idx, col_name, img_counter) ==
    "row_" \o Pad(row_idx, 6) \o "_" \o col_name \o "_" \o Pad(img_counter, 3)
        \o ".png"

\* the dict process_value returns for an image; path "" when no file was saved
ImageObject(data, path) ==
    IF path = ""
      THEN [kind |-> "image", type |-> "image", format |-> "base64_png",
            data |-> data]
      ELSE [kind |-> "image", type |-> "image", format |-> "base64_png",
            data |-> data, file_path |-> path]

\* json.dumps raises TypeError on an object it has no encoding for
RECURSIVE Serializable(_)
Serializable(v) ==
    IF v.kind = "timestamp" THEN FALSE
    ELSE IF v.kind \in {"list", "dict"}
      THEN \A i \in 1..Len(v.v) : Serializable(v.v[i])
    ELSE TRUE

-----------------------------------------------------------------------------
(* convert.py: process_value *)

\* What process_value reads and writes besides its result: img_counter_dict,
\* the files of the images directory, the save_image_to_file calls made, and
\* whether an exception is on its way out of the conversion.
ExportState(ctr, fs, log, failed) ==
    [ctr |-> ctr, files |-> fs, saved |-> log, failed |-> failed]

\* a counter that starts at 1 for its key and is never advanced
CountImageOnce(ctr, key) ==
    [k \in DOMAIN ctr \cup {key} |-> IF k = key THEN 1 ELSE ctr[k]]

\* key = f"{row_idx}_{col_name}"; if key not in img_counter_dict:
\* img_counter_dict[key] = 0; img_counter_dict[key] += 1
CountImage(ctr, key) ==
    IF key \in DOMAIN ctr
      THEN [ctr EXCEPT ![key] = @ + 1]
      ELSE [k \in DOMAIN ctr \cup {key} |-> IF k = key THEN 1 ELSE ctr[k]]

\* the counter is bumped and save_image_to_file called; stored tells whether
\* image.save can write the file
SaveImage(st, row_idx, col_name, stored) ==
    LET key == ToString(row_idx) \o "_" \o col_name
        ctr == CountImage(st.ctr, key)
        filename == Filename(row_idx, col_name, ctr[key])
    IN  IF stored
          THEN [path |-> "images/" \o filename,
                st |-> ExportState(ctr, st.files \cup {filename},
                           Append(st.saved,
                                  [row_idx |-> row_idx, col_name |-> col_name,
                                   img_counter |-> ctr[key],
                                   filename |-> filename]),
                           FALSE)]
          ELSE [path |-> "", st |-> ExportState(ctr, st.files, st.saved, TRUE)]

RECURSIVE process_value(_, _, _, _)
RECURSIVE ProcessItems(_, _, _, _, _)
RECURSIVE ProcessEntries(_, _, _, _, _)

\* process_value(value, image_dir, row_idx, col_name, img_counter_dict) with
\* an image_dir: the result and the state it leaves. Once an exception is
\* on its way nothing more is done.
process_value(value, row_idx, col_name, st) ==
    IF st.failed \/ value.kind = "none" THEN [val |-> PyNone, st |-> st]
    ELSE IF is_datadreamer_image_format(value)
      THEN LET img_bytes == DictGet(value, "bytes").v
               base64_data == b64encode(img_bytes)
           IN  IF Opens(img_bytes)
                 THEN LET s == SaveImage(st, row_idx, col_name, Loads(img_bytes))
                      IN  [val |-> ImageObject(base64_data, s.path), st |-> s.st]
                 ELSE [val |-> ImageObject(base64_data, ""), st |-> st]
    ELSE IF value.kind = "pil"
      THEN LET s == SaveImage(st, row_idx, col_name, TRUE)
           IN  [val |-> ImageObject(b64encode(value.png), s.path), st |-> s.st]
    ELSE IF value.kind = "list"
      THEN LET r == ProcessItems(value.v, 1, row_idx, col_name, st)
           IN  [val |-> PyList(r.val), st |-> r.st]
    ELSE IF value.kind = "dict"
      THEN LET r == ProcessEntries(value, 1, row_idx, col_name, st)
           IN  [val |-> PyDict(value.names, r.val), st |-> r.st]
    ELSE IF value.kind = "bytes"
      THEN [val |-> IF Utf8Valid(value.v) THEN PyStr(value.v)
                    ELSE PyStr(b64encode(value.v)),
            st |-> st]
    ELSE [val |-> value, st |-> st]

\* [process_value(item, ..., f"{col_name}_item{i}", ...)
\*      for i, item in enumerate(value)], from the i-th item (1-based) on
ProcessItems(items, i, row_idx, col_name, st) ==
    IF i > Len(items) THEN [val |-> <<>>, st |-> st]
    ELSE LET head == process_value(items[i], row_idx,
                         col_name \o "_item" \o ToString(i - 1), st)
             rest == ProcessItems(items, i + 1, row_idx, col_name, head.st)
         IN  [val |-> <<head.val>> \o rest.val, st |-> rest.st]

\* {k: process_value(v, ..., f"{col_name}_{k}", ...) for k, v in value.items()}
ProcessEntries(d, i, row_idx, col_name, st) ==
    IF i > Len(d.names) THEN [val |-> <<>>, st |-> st]
    ELSE LET head == process_value(d.v[i], row_idx,
                         col_name \o "_" \o d.names[i], st)
             rest == ProcessEntries(d, i + 1, row_idx, col_name, head.st)
         IN  [val |-> <<head.val>> \o rest.val, st |-> rest.st]

-----------------------------------------------------------------------------
(* convert.py: convert_dataset_to_jsonl *)

\* df.columns: the second name is the one process_value derives for the
\* first item of a list in the first column
Columns == <<"a", "a_item0">>

\* a cell in DataDreamer's image format
DDImage(b) == PyDict(<<"bytes", "path">>, <<PyBytes(b), PyNone>>)

\* the text "hi", and two bytes that are no UTF-8
Hi == <<104, 105>>
NotUtf8 == <<255, 1>>

\* the rows a dataset is made of here, each the cells of its two columns
Rows ==
    { <<PyNone, PyNone>>,
      <<PyInt(7), PyStr(Hi)>>,
      <<PyBytes(Hi), PyBytes(NotUtf8)>>,
      <<DDImage(PngFile(101)), PyNone>>,
      <<DDImage(Filler(102)), PyNone>>,
      <<DDImage(PngFile(70)), PyNone>>,
      <<PILImage(PngFile(103)), PyNone>>,
      <<PyList(<<DDImage(PngFile(101))>>), DDImage(PngFile(101))>>,
      <<PyList(<<PyNone>>), PyInt(7)>>,
      <<PyList(<<PyInt(7), PyStr(Hi)>>),
        PyDict(<<"x">>, <<DDImage(PngFile(101))>>)>>,
      <<Timestamp, DDImage(PngFile(101))>>,
      <<DDImage(CutPngFile(101)), PyNone>>,
      <<PyList(<<DDImage(PngFile(101)), PILImage(PngFile(103))>>), PyNone>> }

\* if pd.isna(value): of a scalar a bool; of an array the array of the
\* items' answers, whose truth value is that of its one item, False when it
\* is empty (or an error, with the same outcome) and a ValueError when it
\* has more items
isna(value) ==
    IF value.kind = "none" THEN "True"
    ELSE IF value.kind = "list"
      THEN IF Len(value.v) = 0 THEN "False"
           ELSE IF Len(value.v) = 1
             THEN IF value.v[1].kind = "none" THEN "True" ELSE "False"
           ELSE "ValueError"
    ELSE "False"

\* for col in df.columns: ..., from the i-th column on: the values of
\* row_dict, row_image_count and the export state afterwards
RECURSIVE ConvertColumns(_, _, _, _, _)
ConvertColumns(row, i, row_idx, st, row_image_count) ==
    IF i > Len(Columns)
      THEN [vals |-> <<>>, row_image_count |-> row_image_count, st |-> st]
    ELSE LET value == row[i]
             na == isna(value)
             r == IF na = "True" THEN [val |-> PyNone, st |-> st]
                  ELSE process_value(value, row_idx, Columns[i], st)
             counted == /\ na = "False"
                        /\ r.val.kind = "image"
                        /\ "file_path" \in DOMAIN r.val
             rest == ConvertColumns(row, i + 1, row_idx, r.st,
                         row_image_count + (IF counted THEN 1 ELSE 0))
         IN  [vals |-> <<r.val>> \o rest.vals,
              row_image_count |-> rest.row_image_count,
              st |-> rest.st]

ConvertIdle ==
    /\ dataset = <<>>
    /\ datasetExists = FALSE
    /\ cidx = 0
    /\ lines = <<>>
    /\ files = {}
    /\ img_counter_dict = <<>>
    /\ saved = <<>>
    /\ total_images_saved = 0
    /\ cpc = "off"
    /\ cresult = "none"

\* a dataset directory before convert_dataset_to_jsonl is called on it
InitConvert ==
    /\ dataset \in SeqsOf(Rows, 0, MaxDatasetRows)
    /\ datasetExists \in BOOLEAN
    /\ cidx = 0
    /\ lines = <<>>
    /\ files = {}
    /\ img_counter_dict = <<>>
    /\ saved = <<>>
    /\ total_images_saved = 0
    /\ cpc = "start"
    /\ cresult = "none"

\* a load outside the try statement: its exception leaves the function
LoadDatasetUncaught ==
    /\ cpc = "start"
    /\ \/ /\ ~datasetExists
          /\ cpc' = "done"
          /\ cresult' = "False"
       \/ /\ datasetExists
          /\ \/ cpc' = "rows" /\ UNCHANGED cresult
             \/ cpc' = "raised" /\ UNCHANGED cresult
    /\ UNCHANGED <<dataset, datasetExists, cidx, lines, files, img_counter_dict,
                   saved, total_images_saved>>
    /\ ConvertFrame

\* if not dataset_path.exists(): return False; Dataset.load_from_disk and
\* to_pandas, which may raise; open(output_file, 'w')
LoadDataset ==
    /\ cpc = "start"
    /\ \/ /\ ~datasetExists
          /\ cpc' = "done"
          /\ cresult' = "False"
       \/ /\ datasetExists
          /\ \/ cpc' = "rows" /\ UNCHANGED cresult
             \/ cpc' = "done" /\ cresult' = "False"
    /\ UNCHANGED <<dataset, datasetExists, cidx, lines, files, img_counter_dict,
                   saved, total_images_saved>>
    /\ ConvertFrame

\* a write that replaces what the file holds
writeOver(f, json_line) == <<json_line>>

\* f.write(json_line + '\n')
write(f, json_line) == Append(f, json_line)

\* one pass of "for idx, row in df.iterrows()": the row's cells are
\* processed, images saved, and the line written unless an exception (of
\* image.save or of json.dumps) ended the conversion with return False
ConvertRow ==
    /\ cpc = "rows"
    /\ cidx < Len(dataset)
    /\ LET r == ConvertColumns(dataset[cidx + 1], 1, cidx,
                    ExportState(img_counter_dict, files, saved, FALSE), 0)
           row_dict == [cols |-> Columns, vals |-> r.vals,
                        metadata |-> [row_index |-> cidx,
                                      images_in_row |-> r.row_image_count]]
           dumped == \A i \in 1..Len(r.vals) : Serializable(r.vals[i])
       IN  /\ img_counter_dict' = r.st.ctr
           /\ files' = r.st.files
           /\ saved' = r.st.saved
           /\ IF r.st.failed
                THEN /\ cpc' = "done" /\ cresult' = "False"
                     /\ UNCHANGED <<lines, cidx, total_images_saved>>
              ELSE IF ~dumped
                THEN /\ cpc' = "done" /\ cresult' = "False"
                     /\ total_images_saved' =
                            total_images_saved + r.row_image_count
                     /\ UNCHANGED <<lines, cidx>>
              ELSE /\ lines' = write(lines, row_dict)
                   /\ total_images_saved' =
                          total_images_saved + r.row_image_count
                   /\ cidx' = cidx + 1
                   /\ UNCHANGED <<cpc, cresult>>
    /\ UNCHANGED <<dataset, datasetExists>>
    /\ ConvertFrame

\* the loop is over: return True
ConvertReturns ==
    /\ cpc = "rows"
    /\ cidx = Len(dataset)
    /\ cpc' = "done"
    /\ cresult' = "True"
    /\ UNCHANGED <<dataset, datasetExists, cidx, lines, files, img_counter_dict,
                   saved, total_images_saved>>
    /\ ConvertFrame

-----------------------------------------------------------------------------
(* convert.py: main and discover_datasets *)

BatchIdle ==
    /\ batch = FALSE
    /\ discovered = 0
    /\ outcomes = <<>>
    /\ success_count = 0

\* main calls convert_dataset_to_jsonl on the directory --dataset names, if
\* it exists, whatever it holds; without --dataset, on each directory
\* discover_datasets found, and those have a _dataset directory. An empty
\* list ends main before the loop.
InitBatch ==
    /\ batch \in BOOLEAN
    /\ discovered \in IF batch THEN 1..MaxDatasets ELSE {1}
    /\ batch => datasetExists
    /\ outcomes = <<>>
    /\ success_count = 0

\* if convert_dataset_to_jsonl(dataset_dir): success_count += 1
Tally(result) == IF result = "True" THEN success_count + 1 ELSE success_count

\* the call returned and was tallied; "for dataset_dir in datasets" turns to
\* the next directory, with its own output file and images directory, and
\* the locals of the call that returned are gone
BatchNext ==
    /\ batch
    /\ cpc = "done"
    /\ Len(outcomes) + 1 < discovered
    /\ outcomes' = Append(outcomes, cresult)
    /\ success_count' = Tally(cresult)
    /\ dataset' = <<>>
    /\ datasetExists' = TRUE
    /\ cidx' = 0
    /\ lines' = <<>>
    /\ files' = {}
    /\ img_counter_dict' = <<>>
    /\ saved' = <<>>
    /\ total_images_saved' = 0
    /\ cpc' = "next"
    /\ cresult' = "none"
    /\ UNCHANGED <<batch, discovered>>
    /\ BatchFrame

\* convert_dataset_to_jsonl(dataset_dir) is called on the next directory,
\* which holds some dataset
BatchCall ==
    /\ cpc = "next"
    /\ dataset' \in SeqsOf(Rows, 0, MaxDatasetRows)
    /\ cpc' = "start"
    /\ UNCHANGED <<datasetExists, cidx, lines, files, img_counter_dict, saved,
                   total_images_saved, cresult>>
    /\ UNCHANGED batchVars
    /\ BatchFrame

\* the call for the last directory returned: the loop ends and main logs
\* success_count
BatchEnds ==
    /\ batch
    /\ cpc = "done"
    /\ Len(outcomes) + 1 = discovered
    /\ outcomes' = Append(outcomes, cresult)
    /\ success_count' = Tally(cresult)
    /\ cpc' = "finished"
    /\ UNCHANGED <<dataset, datasetExists, cidx, lines, files, img_counter_dict,
                   saved, total_images_saved, cresult>>
    /\ UNCHANGED <<batch, discovered>>
    /\ BatchFrame

-----------------------------------------------------------------------------
(* Two execute_code_and_generate_image invocations that overlap *)

\* The map step runs the wrapper for one row at a time. Here two invocations
\* of it, each for its own row, run interleaved in one process, statement by
\* statement, as they would if rows were rendered concurrently; the process
\* has one alarm clock.
Invocations == {1, 2}

NoAlarm == [owner |-> 0, left |-> 0]

OverlapIdle ==
    /\ opc = [i \in Invocations |-> "off"]
    /\ oalarm = NoAlarm
    /\ oelapsed = [i \in Invocations |-> 0]
    /\ ocalls = <<>>

InitOverlap ==
    /\ opc = [i \in Invocations |-> "start"]
    /\ oalarm = NoAlarm
    /\ oelapsed = [i \in Invocations |-> 0]
    /\ ocalls = <<>>

\* original_dir = os.getcwd(); os.chdir(tempfile.mkdtemp());
\* signal.signal(signal.SIGALRM, timeout_handler)
OvEnter(i) ==
    /\ opc[i] = "start"
    /\ opc' = [opc EXCEPT ![i] = "alarm"]
    /\ UNCHANGED <<oalarm, oelapsed, ocalls>>
    /\ OverlapFrame

\* signal.alarm(timeout): the process's alarm is set anew, whatever was
\* pending
OvArm(i) ==
    /\ opc[i] = "alarm"
    /\ oalarm' = [owner |-> i, left |-> Timeout]
    /\ ocalls' = Append(ocalls, [by |-> i, seconds |-> Timeout])
    /\ opc' = [opc EXCEPT ![i] = "try"]
    /\ UNCHANGED oelapsed
    /\ OverlapFrame

\* the try body ends: the renderer returned or raised
OvRendered(i) ==
    /\ opc[i] = "try"
    /\ opc' = [opc EXCEPT ![i] = "disarm"]
    /\ UNCHANGED <<oalarm, oelapsed, ocalls>>
    /\ OverlapFrame

\* a signal.alarm(0) that would cancel only an alarm of the caller
OvDisarmOwn(i) ==
    /\ opc[i] = "disarm"
    /\ oalarm' = IF oalarm.owner = i THEN NoAlarm ELSE oalarm
    /\ ocalls' = Append(ocalls, [by |-> i, seconds |-> 0])
    /\ opc' = [opc EXCEPT ![i] = "done"]
    /\ UNCHANGED oelapsed
    /\ OverlapFrame

\* finally: signal.alarm(0) cancels the process's pending alarm;
\* os.chdir(original_dir); return row
OvDisarm(i) ==
    /\ opc[i] = "disarm"
    /\ oalarm' = NoAlarm
    /\ ocalls' = Append(ocalls, [by |-> i, seconds |-> 0])
    /\ opc' = [opc EXCEPT ![i] = "done"]
    /\ UNCHANGED oelapsed
    /\ OverlapFrame

\* time passes while a renderer runs, up to the moment the alarm is due
OvTick ==
    /\ \E i \in Invocations : opc[i] = "try"
    /\ \A i \in Invocations : opc[i] = "try" => oelapsed[i] < MaxElapsed
    /\ ~(oalarm.owner # 0 /\ oalarm.left = 0)
    /\ LET dt == IF oalarm.owner # 0 /\ oalarm.left < OverlapStep
                   THEN oalarm.left ELSE OverlapStep
       IN  /\ oelapsed' = [i \in Invocations |->
                              IF opc[i] = "try" THEN oelapsed[i] + dt
                              ELSE oelapsed[i]]
           /\ oalarm' = IF oalarm.owner # 0
                          THEN [oalarm EXCEPT !.left = @ - dt] ELSE oalarm
    /\ UNCHANGED <<opc, ocalls>>
    /\ OverlapFrame

\* the alarm is due: timeout_handler raises TimeoutException in the
\* invocation that is executing, which is any one that is between its
\* signal.signal and its return. In a try body the exception is caught and
\* the finally block follows; anywhere else it leaves the wrapper.
OvAlarmFires(i) ==
    /\ oalarm.owner # 0
    /\ oalarm.left = 0
    /\ opc[i] \in {"alarm", "try", "disarm"}
    /\ oalarm' = NoAlarm
    /\ opc' = [opc EXCEPT ![i] = IF opc[i] = "try" THEN "disarm" ELSE "raised"]
    /\ UNCHANGED <<oelapsed, ocalls>>
    /\ OverlapFrame

-----------------------------------------------------------------------------
(* AzureLLM.run and ProxyLLM.run: the patched create method *)

\* The threads that call run on the one LLM instance. Each statement of run
\* is a step, so that calls of different threads interleave.
Callers == {1, 2}

\* client.chat.completions.create is written as the wrappers installed over
\* the SDK's method, innermost first: <<>> is the SDK's own create, and
\* Append(m, w) is the closure w of a run call whose original_create is m.
OriginalCreate == <<>>

\* the closure a run call defines: azure_create, patched_create or
\* filtered_create of that call
Wrapper(t) == [by |-> t, call |-> runsDone[t] + 1]

RunActive == {"refresh", "read", "install", "body", "finally_return", "finally_raise"}
RunOver == {"returned", "raised"}

PatchIdle ==
    /\ llmClass = "none"
    /\ create = OriginalCreate
    /\ rpc = [t \in Callers |-> "off"]
    /\ original_create = [t \in Callers |-> OriginalCreate]
    /\ runsDone = [t \in Callers |-> 0]
    /\ before = [t \in Callers |-> OriginalCreate]
    /\ overlapped = FALSE

InitPatch ==
    /\ llmClass \in {"AzureLLM", "ProxyLLM"}
    /\ create = OriginalCreate
    /\ rpc = [t \in Callers |-> "idle"]
    /\ original_create = [t \in Callers |-> OriginalCreate]
    /\ runsDone = [t \in Callers |-> 0]
    /\ before = [t \in Callers |-> OriginalCreate]
    /\ overlapped = FALSE

\* a thread calls run(prompts, **kwargs). AzureLLM.run begins with
\* self._refresh_client_token(); ProxyLLM.run begins with the read of create.
StartRun(t) ==
    /\ rpc[t] \in {"idle"} \cup RunOver
    /\ runsDone[t] < MaxRunCalls
    /\ rpc' = [rpc EXCEPT ![t] = IF llmClass = "AzureLLM" THEN "refresh" ELSE "read"]
    /\ before' = [before EXCEPT ![t] = create]
    /\ overlapped' = (overlapped \/ \E u \in Callers \ {t} : rpc[u] \in RunActive)
    /\ UNCHANGED <<llmClass, create, original_create, runsDone>>
    /\ PatchFrame

\* self._refresh_client_token(): get_token returns, or the token request
\* fails and the exception leaves run before create is touched
RefreshClientToken(t) ==
    /\ rpc[t] = "refresh"
    /\ \E ok \in BOOLEAN :
          /\ rpc' = [rpc EXCEPT ![t] = IF ok THEN "read" ELSE "raised"]
          /\ runsDone' = [runsDone EXCEPT ![t] = IF ok THEN @ ELSE @ + 1]
    /\ UNCHANGED <<llmClass, create, original_create, before, overlapped>>
    /\ PatchFrame

\* original_create = self.client.chat.completions.create
ReadCreate(t) ==
    /\ rpc[t] = "read"
    /\ original_create' = [original_create EXCEPT ![t] = create]
    /\ rpc' = [rpc EXCEPT ![t] = "install"]
    /\ UNCHANGED <<llmClass, create, runsDone, before, overlapped>>
    /\ PatchFrame

\* self.client.chat.completions.create = azure_create (patched_create,
\* filtered_create): the closure calls the original_create of this call
InstallWrapper(t) ==
    /\ rpc[t] = "install"
    /\ create' = Append(original_create[t], Wrapper(t))
    /\ rpc' = [rpc EXCEPT ![t] = "body"]
    /\ UNCHANGED <<llmClass, original_create, runsDone, before, overlapped>>
    /\ PatchFrame

\* try: result = super().run(prompts, **kwargs); return result
\* the parent's run returns or raises
RunBody(t) ==
    /\ rpc[t] = "body"
    /\ \E returns \in BOOLEAN :
          rpc' = [rpc EXCEPT ![t] = IF returns THEN "finally_return" ELSE "finally_raise"]
    /\ UNCHANGED <<llmClass, create, original_create, runsDone, before, overlapped>>
    /\ PatchFrame

\* a restore written after the try statement instead of in a finally block:
\* it is skipped when the parent's run raises
RestoreAfterReturn(t) ==
    /\ rpc[t] \in {"finally_return", "finally_raise"}
    /\ create' = IF rpc[t] = "finally_return" THEN original_create[t] ELSE create
    /\ rpc' = [rpc EXCEPT ![t] = IF rpc[t] = "finally_return" THEN "returned" ELSE "raised"]
    /\ runsDone' = [runsDone EXCEPT ![t] = @ + 1]
    /\ UNCHANGED <<llmClass, original_create, before, overlapped>>
    /\ PatchFrame

\* finally: self.client.chat.completions.create = original_create
\* and the result is returned or the exception goes on to the caller
Restore(t) ==
    /\ rpc[t] \in {"finally_return", "finally_raise"}
    /\ create' = original_create[t]
    /\ rpc' = [rpc EXCEPT ![t] = IF rpc[t] = "finally_return" THEN "returned" ELSE "raised"]
    /\ runsDone' = [runsDone EXCEPT ![t] = @ + 1]
    /\ UNCHANGED <<llmClass, original_create, before, overlapped>>
    /\ PatchFrame

-----------------------------------------------------------------------------
(* azure_llm.py: get_token called from several threads *)

\* The threads are the Callers of run. Each statement of get_token is a
\* step; the token, its expiry and the clock are those of the manager above.

\* where get_token is called: run's _refresh_client_token, the
\* _refresh_client_token of azure_create's 401 branch, and the get_token
\* that fills the Authorization header of the retry
CallSites == {"run", "retry", "header"}

\* between the lock's acquisition and its release
InLock == {"check", "request", "return", "raise"}

LockIdle ==
    /\ lock = 0
    /\ lpc = [t \in Callers |-> "off"]
    /\ lsite = [t \in Callers |-> "none"]
    /\ lcalls = [t \in Callers |-> 0]
    /\ lgot = [t \in Callers |-> 0]
    /\ requests = <<>>

\* AzureTokenManager.__init__ has run: token and expiry are those of the
\* first request, the lock is free, and no thread is in get_token
InitLock ==
    /\ now = 0
    /\ token = 1
    /\ issued = 1
    /\ token_expires_at = ExpiresIn - RefreshMargin
    /\ clientKey = 1
    /\ authHeader = 0
    /\ installed = "original_create"
    /\ apc = "off"
    /\ attempts = <<>>
    /\ caught = "none"
    /\ createResult = "none"
    /\ lock = 0
    /\ lpc = [t \in Callers |-> "idle"]
    /\ lsite = [t \in Callers |-> "none"]
    /\ lcalls = [t \in Callers |-> 0]
    /\ lgot = [t \in Callers |-> 0]
    /\ requests = <<>>

\* what the steps of get_token leave alone in the LLM instance
ClientUnchanged ==
    UNCHANGED <<clientKey, authHeader, installed, apc, attempts, caught,
                createResult>>

\* time passes, also while a thread waits for the lock or for the reply to
\* its token request
LockTick ==
    /\ \E t \in Callers : lpc[t] # "off"
    /\ now < MaxLockTicks * ClockStep
    /\ now' = now + ClockStep
    /\ UNCHANGED <<token, token_expires_at, issued>>
    /\ ClientUnchanged
    /\ UNCHANGED lockVars
    /\ LockFrame

\* a thread calls self.token_manager.get_token() from one of the call sites
GetToken(t) ==
    /\ lpc[t] = "idle"
    /\ Len(requests) < MaxRequests
    /\ lcalls[1] + lcalls[2] < MaxGetCalls
    /\ \E site \in CallSites : lsite' = [lsite EXCEPT ![t] = site]
    /\ lcalls' = [lcalls EXCEPT ![t] = @ + 1]
    /\ lpc' = [lpc EXCEPT ![t] = "acquire"]
    /\ lgot' = [lgot EXCEPT ![t] = 0]
    /\ UNCHANGED <<lock, requests>>
    /\ UNCHANGED <<now, token, token_expires_at, issued>>
    /\ ClientUnchanged
    /\ LockFrame

\* a with statement that does not wait for the lock
AcquireUnguarded(t) ==
    /\ lpc[t] = "acquire"
    /\ lock' = t
    /\ lpc' = [lpc EXCEPT ![t] = "check"]
    /\ UNCHANGED <<lsite, lcalls, lgot, requests>>
    /\ UNCHANGED <<now, token, token_expires_at, issued>>
    /\ ClientUnchanged
    /\ LockFrame

\* with self.lock: the thread goes on once the lock is free, and holds it
Acquire(t) ==
    /\ lpc[t] = "acquire"
    /\ lock = 0
    /\ lock' = t
    /\ lpc' = [lpc EXCEPT ![t] = "check"]
    /\ UNCHANGED <<lsite, lcalls, lgot, requests>>
    /\ UNCHANGED <<now, token, token_expires_at, issued>>
    /\ ClientUnchanged
    /\ LockFrame

\* if self.token is None or datetime.now() >= self.token_expires_at
CheckToken(t) ==
    /\ lpc[t] = "check"
    /\ lpc' = [lpc EXCEPT ![t] = IF NeedsRefresh THEN "request" ELSE "return"]
    /\ UNCHANGED <<lock, lsite, lcalls, lgot, requests>>
    /\ UNCHANGED <<now, token, token_expires_at, issued>>
    /\ ClientUnchanged
    /\ LockFrame

\* self._refresh_token(): the request is answered with a token, which is
\* stored with its expiry, or it fails and the exception is raised again
RefreshToken(t) ==
    /\ lpc[t] = "request"
    /\ \E ok \in BOOLEAN :
          /\ requests' = Append(requests,
                 [by |-> t, site |-> lsite[t], at |-> now, ok |-> ok,
                  due |-> NeedsRefresh, stale |-> token,
                  holder |-> lock])
          /\ IF ok
                THEN /\ token' = issued + 1
                     /\ issued' = issued + 1
                     /\ token_expires_at' = now + ExpiresIn - RefreshMargin
                     /\ lpc' = [lpc EXCEPT ![t] = "return"]
                ELSE /\ UNCHANGED <<token, issued, token_expires_at>>
                     /\ lpc' = [lpc EXCEPT ![t] = "raise"]
    /\ UNCHANGED <<lock, lsite, lcalls, lgot, now>>
    /\ ClientUnchanged
    /\ LockFrame

\* return self.token, or the exception of the request: either way the with
\* statement releases the lock
Release(t) ==
    /\ lpc[t] \in {"return", "raise"}
    /\ lock' = 0
    /\ lgot' = [lgot EXCEPT ![t] = IF lpc[t] = "return" THEN token ELSE 0]
    /\ lpc' = [lpc EXCEPT ![t] = "idle"]
    /\ UNCHANGED <<lsite, lcalls, requests>>
    /\ UNCHANGED <<now, token, token_expires_at, issued>>
    /\ ClientUnchanged
    /\ LockFrame

-----------------------------------------------------------------------------
(* The specifications *)

Init == InitPipe /\ MainIdle /\ AzureIdle /\ ArgIdle /\ ConvertIdle /\ OverlapIdle /\ PatchIdle /\ SelIdle /\ BatchIdle /\ LockIdle

Next ==
    \/ GetCwd
    \/ ChdirTemp
    \/ InstallHandler
    \/ ArmAlarm
    \/ EnterTry
    \/ Render
    \/ CheckType
    \/ ProcessImage
    \/ HandleTimeout
    \/ HandleOther
    \/ AlarmFires
    \/ Disarm
    \/ RestoreDir
    \/ ReturnRow
    \/ MapAborts
    \/ Filter

Spec == Init /\ [][Next]_vars

PipeIdle ==
    /\ rows = <<>>
    /\ idx = 1
    /\ pc = "idle"
    /\ cwd = StartDir
    /\ original_dir = "unset"
    /\ handler = "SIG_DFL"
    /\ alarm = 0
    /\ armed = FALSE
    /\ firedAt = "none"
    /\ thrown = "none"
    /\ rendered = "none"
    /\ image = "unset"
    /\ exc = "none"
    /\ escaped = "none"
    /\ out = <<>>
    /\ mapState = "off"
    /\ filtered = <<>>
    /\ logged = FALSE

NextMain ==
    \/ ValidateConfig
    \/ CheckValid
    \/ CreateLLM
    \/ SelectLLMs
    \/ RunPipelines
    \/ Publish

MainInit == InitMain /\ PipeIdle /\ AzureIdle /\ ArgIdle /\ ConvertIdle /\ OverlapIdle /\ PatchIdle /\ SelIdle /\ BatchIdle /\ LockIdle

SpecMain == MainInit /\ [][NextMain]_vars

AzureInit == InitAzure /\ PipeIdle /\ MainIdle /\ ArgIdle /\ ConvertIdle /\ OverlapIdle /\ PatchIdle /\ SelIdle /\ BatchIdle /\ LockIdle

NextAzure ==
    \/ Tick
    \/ RunRefresh
    \/ Patch
    \/ CallCreate
    \/ FirstAttempt
    \/ AuthRefresh
    \/ AuthHeader
    \/ Retry
    \/ RunReturns
    \/ RunUnwinds
    \/ RunRaised

SpecAzure == AzureInit /\ [][NextAzure]_vars

ArgsInit == InitArgs /\ PipeIdle /\ MainIdle /\ AzureIdle /\ ConvertIdle /\ OverlapIdle /\ PatchIdle /\ SelIdle /\ BatchIdle /\ LockIdle

NextArgs ==
    \/ SelectPipelines
    \/ ParseNum
    \/ StartPipeline
    \/ ConcatResults

SpecArgs == ArgsInit /\ [][NextArgs]_vars

ConvertInit ==
    /\ InitConvert
    /\ InitBatch
    /\ PipeIdle /\ MainIdle /\ AzureIdle /\ ArgIdle /\ OverlapIdle /\ PatchIdle /\ SelIdle /\ LockIdle

NextConvert ==
    \/ LoadDataset
    \/ ConvertRow
    \/ ConvertReturns
    \/ BatchNext
    \/ BatchCall
    \/ BatchEnds

SpecConvert == ConvertInit /\ [][NextConvert]_vars

OverlapInit ==
    /\ InitOverlap
    /\ PipeIdle /\ MainIdle /\ AzureIdle /\ ArgIdle /\ ConvertIdle /\ PatchIdle /\ SelIdle /\ BatchIdle /\ LockIdle

NextOverlap ==
    \/ \E i \in Invocations : OvEnter(i)
    \/ \E i \in Invocations : OvArm(i)
    \/ \E i \in Invocations : OvRendered(i)
    \/ \E i \in Invocations : OvDisarm(i)
    \/ OvTick
    \/ \E i \in Invocations : OvAlarmFires(i)

SpecOverlap == OverlapInit /\ [][NextOverlap]_vars


\* AzureLLM.run / ProxyLLM.run called from two threads
PatchInit ==
    /\ InitPatch
    /\ PipeIdle /\ MainIdle /\ AzureIdle /\ ArgIdle /\ ConvertIdle /\ OverlapIdle /\ SelIdle /\ BatchIdle /\ LockIdle

NextPatch ==
    \E t \in Callers :
        \/ StartRun(t)
        \/ RefreshClientToken(t)
        \/ ReadCreate(t)
        \/ InstallWrapper(t)
        \/ RunBody(t)
        \/ Restore(t)

SpecPatch == PatchInit /\ [][NextPatch]_vars

\* get_token called from two threads
LockInit ==
    /\ InitLock
    /\ PipeIdle /\ MainIdle /\ ArgIdle /\ ConvertIdle /\ OverlapIdle /\ PatchIdle /\ SelIdle /\ BatchIdle

NextLock ==
    \/ LockTick
    \/ \E t \in Callers :
          \/ GetToken(t)
          \/ Acquire(t)
          \/ CheckToken(t)
          \/ RefreshToken(t)
          \/ Release(t)

SpecLock == LockInit /\ [][NextLock]_vars

-----------------------------------------------------------------------------
(* Properties of the wrapper, the map step and the filter step *)

ExitPcs == {"return", "raised"}

\* Where an alarm armed by the wrapper may still be pending: from
\* signal.alarm(timeout) up to signal.alarm(0).
GuardedPcs == {"enter_try", "exc_timeout", "exc_other", "disarm"} \cup TryPcs

\* C1: on every exit of execute_code_and_generate_image, by return or by an
\* exception, the process working directory is the one it was called in.
CwdRestoredOnEveryExit ==
    pc \in ExitPcs => cwd = original_dir

\* C2: when the alarm goes off while the row is being rendered (anywhere in
\* the try body), no exception leaves the wrapper or stays in flight, and the
\* row it returns has image None.
TimeoutYieldsNoneImage ==
    firedAt \in TryPcs =>
        /\ pc # "raised"
        /\ exc = "none" /\ escaped = "none"
        /\ pc \in {"disarm", "restore", "return"} => image = "None"

\* a renderer that never returns was cut off by the alarm and the wrapper
\* returned the row
TimeoutReturned ==
    /\ rows[idx] = "hangs"
    /\ firedAt = "render"
    /\ pc = "return"
    /\ image = "None"

\* C3: when the renderer raises, returns a non-image, or process_image
\* raises, the wrapper returns the row with image None and raises nothing.
NonTimeoutFailureYieldsNone ==
    (thrown # "none" /\ pc \in ExitPcs) => (pc = "return" /\ image = "None")

\* C4: the map step ends with exactly one output row per input row, in
\* order, whatever happened to earlier rows.
OneOutputRowPerInputRow ==
    mapState # "mapping" =>
        /\ Len(out) = Len(rows)
        /\ \A i \in 1..Len(out) : out[i].id = i

\* C5: outside the stretch from signal.alarm(timeout) to signal.alarm(0) no
\* alarm is pending: none when the wrapper has returned or raised, none
\* between two rows, none after the map step.
NoAlarmPendingOutsideWrapper ==
    (pc \notin GuardedPcs \/ mapState # "mapping") => alarm = 0

\* the wrapper armed the alarm, the alarm did not go off, and the cleanup
\* block disarmed it before the return
DisarmedByCleanup ==
    /\ armed
    /\ firedAt = "none"
    /\ pc = "return"
    /\ alarm = 0

\* the filter output is the sub-sequence of the map output with a non-None
\* image, in the original order
FilteredIsValidSubsequence ==
    /\ \A i \in 1..Len(filtered) : filtered[i].image # "None"
    /\ \A i \in 1..Len(filtered) : \E j \in 1..Len(out) : out[j] = filtered[i]
    /\ \A j \in 1..Len(out) :
          out[j].image # "None" => \E i \in 1..Len(filtered) : filtered[i] = out[j]
    /\ \A i, k \in 1..Len(filtered) : i < k => filtered[i].id < filtered[k].id

\* C6 (as amended): the filter step returns exactly the rows with a non-None
\* image, in order, and logs the success ratio exactly when it dropped a row.
FilterKeepsValidRowsLogsWhenDropped ==
    mapState = "filtered" =>
        /\ FilteredIsValidSubsequence
        /\ logged <=> (\E j \in 1..Len(out) : out[j].image = "None")

\* C6 (as stated): the filter step returns exactly the rows with a non-None
\* image, in order, and the success ratio is logged.
FilterKeepsValidRowsAndLogs ==
    mapState = "filtered" => (FilteredIsValidSubsequence /\ logged)

\* the filter step dropped one row, kept another, and logged the ratio
FilterDroppedAndLogged ==
    /\ mapState = "filtered"
    /\ Len(filtered) > 0
    /\ Len(filtered) < Len(out)
    /\ logged

-----------------------------------------------------------------------------
(* Properties of main.py *)

\* the configuration is incomplete: API_MODE (official when absent) names no
\* mode, or a variable the mode requires is absent or empty
ConfigIncomplete ==
    LET mode == IF env["API_MODE"] = Unset THEN "official" ELSE env["API_MODE"]
        Lacks(var) == env[var] \in {Unset, ""}
    IN  \/ mode \notin {"official", "proxy", "azure"}
        \/ mode = "official" /\ (Lacks("OPENAI_API_KEY") \/ Lacks("ANTHROPIC_API_KEY"))
        \/ mode = "proxy" /\ (Lacks("PROXY_API_KEY") \/ Lacks("PROXY_BASE_URL"))
        \/ mode = "azure" /\ (\/ Lacks("AZURE_OPENAI_TENANT_ID")
                              \/ Lacks("AZURE_OPENAI_CLIENT_ID")
                              \/ Lacks("AZURE_OPENAI_CLIENT_SECRET")
                              \/ Lacks("AZURE_OPENAI_ENDPOINT")
                              \/ Lacks("AZURE_OPENAI_API_VERSION"))

MainEnded == mpc \in {"exited", "crashed", "finished"}

\* C7: validate_config returns False exactly when the configuration is
\* incomplete and True in every other case; and the program ends with
\* validate_config False and exit code 1 exactly when it is incomplete.
ValidateConfigFalseIffIncomplete ==
    /\ validResult # "None" =>
          /\ validResult = "False" <=> ConfigIncomplete
          /\ validResult = "True" <=> ~ConfigIncomplete
    /\ MainEnded =>
          ((validResult = "False" /\ exitCode = 1) <=> ConfigIncomplete)
    /\ (mpc \notin {"start", "check"} /\ validResult = "False") => mpc = "exited"

\* azure mode with only the API version set to the empty string: the
\* program has exited with code 1
ExitedOnEmptyVariable ==
    /\ env["API_MODE"] = "azure"
    /\ env["AZURE_OPENAI_API_VERSION"] = ""
    /\ \A var \in Range(AzureVars) \ {"AZURE_OPENAI_API_VERSION"} : Truthy(var)
    /\ mpc = "exited"
    /\ exitCode = 1
    /\ validResult = "False"

\* C8: validate_config is evaluated before anything of the session; once it
\* has returned False no LLM instance exists, no pipeline has run and nothing
\* was published; any of these happening means it returned True.
NoSessionWithoutValidConfig ==
    /\ validResult = "False" => (llms = <<>> /\ ~pipelinesRun /\ ~published)
    /\ (llms # <<>> \/ pipelinesRun \/ published \/ mpc \in {"session", "crashed", "finished"})
          => validResult = "True"

\* the program ended on a failed validation with nothing created
AbortedBeforeSession ==
    /\ mpc = "exited"
    /\ validResult = "False"
    /\ errorMsg # <<>>
    /\ llms = <<>>

\* what validate_config printed for a deployment, without its "(default)" tag
ReportedName(var) ==
    CASE reported[var] = "gpt-4o (default)" -> "gpt-4o"
      [] reported[var] = "gpt-4o-mini (default)" -> "gpt-4o-mini"
      [] reported[var] = "gpt-4 (default)" -> "gpt-4"
      [] OTHER -> reported[var]

\* the deployment variable that stands behind a model name
DeploymentVarOf(model) ==
    CASE model = "gpt-4o" -> "AZURE_OPENAI_DEPLOYMENT"
      [] model = "gpt-4o-mini" -> "AZURE_OPENAI_MINI_DEPLOYMENT"
      [] OTHER -> "AZURE_ANTHROPIC_DEPLOYMENT"

AzureRequiredSet ==
    /\ env["API_MODE"] = "azure"
    /\ \A var \in Range(AzureVars) : env[var] \notin {Unset, ""}

\* C9: in azure mode with the five required variables set, validate_config
\* returns True whatever deployment variables are missing, and every Azure LLM
\* whose deployment variable is missing uses the deployment that
\* validate_config printed as the default.
MissingDeploymentUsesReportedDefault ==
    (AzureRequiredSet /\ validResult # "None") =>
        /\ validResult = "True"
        /\ \A i \in 1..Len(llms) :
              env[DeploymentVarOf(llms[i].model)] \in {Unset, ""} =>
                  llms[i].deployment = ReportedName(DeploymentVarOf(llms[i].model))


-----------------------------------------------------------------------------
(* Properties of AzureLLM's 401 retry *)

\* C10: a create call that fails with an authentication error is tried
\* again once and no more, the second attempt is made only with a token that
\* Azure AD issued after the first attempt failed and that is installed on
\* the client, and an error of the second attempt leaves azure_create.
AuthRetryOnceAfterTokenRefresh ==
    /\ Len(attempts) <= 2
    /\ Len(attempts) = 2 =>
          /\ IsAuthError(caught)
          /\ attempts[2].issued > attempts[1].issued
          /\ attempts[2].key # attempts[1].key
          /\ attempts[2].key = attempts[2].issued
    /\ (Len(attempts) = 2 /\ createResult \in Errors) =>
          apc \in {"unwind", "run_raised", "idle"}

\* a provider error that reports a missing deployment and is not taken for an
\* authentication failure
MissingDeployment(e) == IsNotFound(e) /\ ~IsAuthError(e)

\* C11: a create failure that reports a missing deployment leaves
\* azure_create as the ValueError naming the deployment and the model, and
\* is not tried again; an error that is neither an authentication failure
\* nor a missing deployment leaves azure_create as it was raised.
MissingDeploymentRaisesValueError ==
    /\ MissingDeployment(caught) =>
          /\ Len(attempts) = 1
          /\ apc \in {"unwind", "run_raised"} => createResult = "ValueError"
    /\ createResult \in Errors => ~MissingDeployment(createResult)
    /\ (caught \in Errors /\ ~IsAuthError(caught) /\ ~IsNotFound(caught)) =>
          /\ Len(attempts) = 1
          /\ apc \in {"unwind", "run_raised"} => createResult = caught

-----------------------------------------------------------------------------
(* Properties of AzureTokenManager.get_token *)

\* where the model calls get_token, and where it goes when get_token returns
GetTokenPcs == {"idle", "auth_refresh", "auth_header"}
GetTokenReturnedPcs == {"patch", "auth_header", "retry"}

\* C20: get_token obtains a new token exactly when the stored token is None
\* or the clock has reached token_expires_at, which is the token's lifetime
\* less 300 seconds after it was obtained; what get_token returns is never
\* None and is the token obtained last.
GetTokenRefreshesExactlyWhenDue ==
    [][ LET called == apc \in GetTokenPcs /\ apc' # apc
            due == token = 0 \/ now >= token_expires_at
            returned == called /\ apc' \in GetTokenReturnedPcs
            value == IF apc = "auth_header" THEN authHeader' ELSE clientKey'
        IN  /\ issued' # issued => called /\ due
            /\ (called /\ ~due) =>
                  returned /\ token' = token /\ token_expires_at' = token_expires_at
            /\ (returned /\ due) =>
                  /\ issued' = issued + 1
                  /\ token_expires_at' = now + 3600 - 300
            /\ returned => value # 0 /\ value = token' /\ value = issued'
      ]_vars

\* run started after the renewal time of the first token and got the
\* second one
TokenRenewedWhenDue ==
    /\ apc = "patch"
    /\ now >= ExpiresIn - RefreshMargin
    /\ issued = 2
    /\ clientKey = 2

-----------------------------------------------------------------------------
(* Properties of --num *)

\* the fields of s between its commas
RECURSIVE split(_)
split(s) ==
    IF \A i \in 1..Len(s) : s[i] # "," THEN <<s>>
    ELSE LET k == CHOOSE i \in 1..Len(s) :
                     s[i] = "," /\ \A j \in 1..(i - 1) : s[j] # ","
         IN  <<SubSeq(s, 1, k - 1)>> \o split(SubSeq(s, k + 1, Len(s)))

\* --num is a single integer
IsInteger(s) == int(s) >= 0

\* --num is a comma-separated list of integers
IsIntegerList(s) ==
    /\ Len(split(s)) > 1
    /\ \A i \in 1..Len(split(s)) : int(split(s)[i]) >= 0

\* C18: a single integer is the count of every selected pipeline; a
\* comma-separated list with one integer per selected pipeline gives the
\* i-th pipeline run the i-th integer; a list of any other length ends the
\* session with the AssertionError.
NumGivesCountPerPipeline ==
    npc \in {"run", "done", "raised"} =>
        /\ IsInteger(numArg) =>
              /\ argError = "none"
              /\ \A i \in 1..Len(started) : started[i].n = int(numArg)
        /\ (IsIntegerList(numArg) /\ Len(split(numArg)) = Len(pipelines)) =>
              /\ argError = "none"
              /\ \A i \in 1..Len(started) :
                    started[i].n = int(split(numArg)[i])
        /\ (IsIntegerList(numArg) /\ Len(split(numArg)) # Len(pipelines)) =>
              argError = "AssertionError"

-----------------------------------------------------------------------------
(* Properties of convert_dataset_to_jsonl *)

\* the sum of f over the items of a sequence
RECURSIVE SumOver(_, _)
SumOver(f(_), seq) ==
    IF seq = <<>> THEN 0 ELSE f(Head(seq)) + SumOver(f, Tail(seq))

\* the index of a code point in the base64 alphabet
B64Value(c) ==
    IF c \in 65..90 THEN c - 65
    ELSE IF c \in 97..122 THEN c - 97 + 26
    ELSE IF c \in 48..57 THEN c - 48 + 52
    ELSE IF c = 43 THEN 62 ELSE 63

\* the bytes a padded base64 text stands for
RECURSIVE b64decode(_)
b64decode(s) ==
    IF Len(s) = 0 THEN <<>>
    ELSE LET a == B64Value(s[1])
             b == B64Value(s[2])
             c == B64Value(s[3])
             d == B64Value(s[4])
         IN  IF s[3] = 61 THEN <<a * 4 + b \div 16>>
             ELSE IF s[4] = 61
               THEN <<a * 4 + b \div 16, (b % 16) * 16 + c \div 4>>
             ELSE <<a * 4 + b \div 16, (b % 16) * 16 + c \div 4,
                    (c % 4) * 64 + d>> \o b64decode(SubSeq(s, 5, Len(s)))

\* a value in DataDreamer's image form, whatever its bytes are
IsDDForm(v) ==
    /\ v.kind = "dict"
    /\ v.names = <<"bytes", "path">>
    /\ v.v[1].kind = "bytes"

\* an image-bearing value: DataDreamer's form or a PIL image
IsImageBearing(v) == v.kind = "pil" \/ IsDDForm(v)

\* an image: a PIL image, or DataDreamer's form holding a PNG file
IsImageValue(v) ==
    \/ v.kind = "pil"
    \/ IsDDForm(v) /\ Opens(v.v[1].v) /\ Loads(v.v[1].v)

ImageBytes(v) == IF v.kind = "pil" THEN v.png ELSE v.v[1].v

\* how many image-bearing values a value holds, itself included
RECURSIVE ImageBearingIn(_)
ImageBearingIn(v) ==
    IF IsImageBearing(v) THEN 1
    ELSE IF v.kind \in {"list", "dict"} THEN SumOver(ImageBearingIn, v.v)
    ELSE 0

ImageBearingInRow(row) == SumOver(ImageBearingIn, row)

\* the image objects of a JSON value, each with the column name its place
\* has: the column's, then _item<i> for the i-th item of a list and _<key>
\* for an entry of a dict
RECURSIVE ImageObjectsIn(_, _)
ImageObjectsIn(jv, col) ==
    IF jv.kind = "image" THEN {[col |-> col, obj |-> jv]}
    ELSE IF jv.kind = "list"
      THEN UNION {ImageObjectsIn(jv.v[k], col \o "_item" \o ToString(k - 1)) :
                      k \in 1..Len(jv.v)}
    ELSE IF jv.kind = "dict"
      THEN UNION {ImageObjectsIn(jv.v[k], col \o "_" \o jv.names[k]) :
                      k \in 1..Len(jv.v)}
    ELSE {}

ImageObjectsOfLine(line) ==
    UNION {ImageObjectsIn(line.vals[j], line.cols[j]) : j \in 1..Len(line.cols)}

\* C12: when the conversion succeeds the JSONL file has one line per row of
\* the dataset, in the order of the rows: line i carries row i's index and
\* row i's scalar cells. While it runs, the lines are those of the rows done.
OneLinePerRowInOrder ==
    /\ cpc = "rows" => Len(lines) = cidx
    /\ cresult = "True" =>
          /\ Len(lines) = Len(dataset)
          /\ \A i \in 1..Len(lines) :
                /\ lines[i].metadata.row_index = i - 1
                /\ lines[i].cols = Columns
                /\ \A j \in 1..Len(Columns) :
                      dataset[i][j].kind \in {"int", "str"} =>
                          lines[i].vals[j] = dataset[i][j]

\* a dataset of two different rows was converted
TwoRowsConverted ==
    /\ cresult = "True"
    /\ Len(dataset) = 2
    /\ dataset[1] # dataset[2]
    /\ Len(lines) = 2
    /\ dataset[2][1].kind = "int"

\* a value that holds no image-bearing value
ImageFree(v) == ImageBearingIn(v) = 0

\* the JSON value jv carries src: the same scalar; a list of the same length, a dict of
\* the same keys, item by item; for bytes, which JSON has no type for, the
\* text they decode to or else their base64 text
RECURSIVE Carried(_, _)
Carried(src, jv) ==
    IF src.kind = "bytes"
      THEN /\ jv.kind = "str"
           /\ IF Utf8Valid(src.v) THEN jv.v = src.v
              ELSE Len(jv.v) % 4 = 0 /\ b64decode(jv.v) = src.v
    ELSE IF src.kind = "list"
      THEN /\ jv.kind = "list"
           /\ Len(jv.v) = Len(src.v)
           /\ \A k \in 1..Len(src.v) : Carried(src.v[k], jv.v[k])
    ELSE IF src.kind = "dict"
      THEN /\ jv.kind = "dict"
           /\ jv.names = src.names
           /\ \A k \in 1..Len(src.v) : Carried(src.v[k], jv.v[k])
    ELSE jv = src

\* C13: every line carries every column of its row that holds no image with
\* the value unchanged: same scalar, same list and dict structure.
NonImageValuesCarriedUnchanged ==
    \A i \in 1..Len(lines) : \A j \in 1..Len(Columns) :
        ImageFree(dataset[i][j]) =>
            lines[i].cols[j] = Columns[j] /\ Carried(dataset[i][j], lines[i].vals[j])

\* the JSON value jv represents src's images: where src is an image, jv is the image
\* object with the base64 text of its bytes
RECURSIVE Represented(_, _)
Represented(src, jv) ==
    IF IsImageValue(src)
      THEN /\ jv.kind = "image"
           /\ jv.type = "image"
           /\ jv.format = "base64_png"
           /\ Len(jv.data) % 4 = 0
           /\ b64decode(jv.data) = ImageBytes(src)
    ELSE IF src.kind \in {"list", "dict"}
      THEN \A k \in 1..Len(src.v) :
              ImageBearingIn(src.v[k]) > 0 =>
                  /\ jv.kind = src.kind
                  /\ Len(jv.v) = Len(src.v)
                  /\ Represented(src.v[k], jv.v[k])
    ELSE TRUE

\* C14: every image of a row, in DataDreamer's form or a PIL image, at the
\* top of a column or inside a list or dict, and whatever the length of its
\* bytes, is in the line as {"type": "image", "format": "base64_png",
\* "data": the base64 text of its bytes}.
ImagesRepresentedAsBase64Objects ==
    \A i \in 1..Len(lines) : \A j \in 1..Len(Columns) :
        Represented(dataset[i][j], lines[i].vals[j])

\* C15: after a successful conversion the images directory holds as many
\* files as the rows hold image-bearing values, nested ones and ones whose
\* bytes are no image included.
FileCountEqualsImageCount ==
    cresult = "True" =>
        Cardinality(files) = SumOver(ImageBearingInRow, dataset)

\* the characters of a string
Chars(s) == [k \in 1..Len(s) |-> SubSeq(s, k, k)]

\* name is row_<six digits of row>_<col>_<three digits of counter>.png
NamedByRowColumnCounter(name, row, col, counter) ==
    /\ Len(name) = 4 + 6 + 1 + Len(col) + 1 + 3 + 4
    /\ SubSeq(name, 1, 4) = "row_"
    /\ int(Chars(SubSeq(name, 5, 10))) = row
    /\ SubSeq(name, 11, 11) = "_"
    /\ SubSeq(name, 12, 11 + Len(col)) = col
    /\ SubSeq(name, 12 + Len(col), 12 + Len(col)) = "_"
    /\ int(Chars(SubSeq(name, 13 + Len(col), 15 + Len(col)))) = counter
    /\ SubSeq(name, 16 + Len(col), 19 + Len(col)) = ".png"

\* C16: every exported file is named row_{index:06d}_{column}_{counter:03d}.png
\* with the row's index, the column name of the image's place and a counter
\* that is 1 for the first image saved under that row and column name and
\* one more for each further one; the image's object in the line has
\* file_path "images/" followed by that name.
ExportedFileNames ==
    /\ \A k \in 1..Len(saved) :
          /\ NamedByRowColumnCounter(saved[k].filename, saved[k].row_idx,
                                     saved[k].col_name, saved[k].img_counter)
          /\ saved[k].img_counter =
                Cardinality({j \in 1..k :
                                /\ saved[j].row_idx = saved[k].row_idx
                                /\ saved[j].col_name = saved[k].col_name})
          /\ saved[k].filename \in files
          /\ saved[k].row_idx < Len(lines) =>
                \E o \in ImageObjectsOfLine(lines[saved[k].row_idx + 1]) :
                    /\ o.col = saved[k].col_name
                    /\ "file_path" \in DOMAIN o.obj
                    /\ o.obj.file_path = "images/" \o saved[k].filename
    /\ \A i \in 1..Len(lines) : \A o \in ImageObjectsOfLine(lines[i]) :
          "file_path" \in DOMAIN o.obj =>
              \E k \in 1..Len(saved) :
                  /\ saved[k].row_idx = i - 1
                  /\ saved[k].col_name = o.col
                  /\ o.obj.file_path = "images/" \o saved[k].filename
    /\ files = {saved[k].filename : k \in 1..Len(saved)}

\* two images of one row were saved under the same column name, and the
\* conversion succeeded
SecondImageUnderSameName ==
    /\ cresult = "True"
    /\ \E k \in 1..Len(saved) : saved[k].img_counter = 2

\* the data of every image object of the JSON value jv decodes and encodes back to
\* itself, and decodes to the bytes of the DataDreamer image it was made of
RECURSIVE RoundTrips(_, _)
RoundTrips(src, jv) ==
    IF jv.kind = "image"
      THEN /\ Len(jv.data) % 4 = 0
           /\ b64encode(b64decode(jv.data)) = jv.data
           /\ src.kind = "dict" => b64decode(jv.data) = DictGet(src, "bytes").v
    ELSE IF jv.kind \in {"list", "dict"}
      THEN \A k \in 1..Len(jv.v) : RoundTrips(src.v[k], jv.v[k])
    ELSE TRUE

\* C17: the data field of every image object in the JSONL is base64 text
\* that decodes and re-encodes to itself, and for an image in DataDreamer's
\* form it decodes to exactly the source bytes.
Base64RoundTrip ==
    \A i \in 1..Len(lines) : \A j \in 1..Len(Columns) :
        RoundTrips(dataset[i][j], lines[i].vals[j])

\* a line with the image object of a DataDreamer image and one with that of
\* a PIL image were written
ImageObjectsWritten ==
    /\ cresult = "True"
    /\ Len(lines) = 2
    /\ dataset[1][1].kind = "dict" /\ lines[1].vals[1].kind = "image"
    /\ dataset[2][1].kind = "pil" /\ lines[2].vals[1].kind = "image"

-----------------------------------------------------------------------------
(* Properties of overlapping invocations *)

\* the other invocation called signal.alarm after invocation i armed the
\* alarm for its row
AlarmTouchedByOther(i) ==
    \E k \in 1..Len(ocalls) :
        /\ ocalls[k].by = i
        /\ ocalls[k].seconds = Timeout
        /\ \E n \in (k + 1)..Len(ocalls) : ocalls[n].by # i

-----------------------------------------------------------------------------
(* Properties of the patched create method *)

\* no run call is in progress
NoRunInProgress == \A t \in Callers : rpc[t] \notin RunActive

\* C21: AzureLLM.run and ProxyLLM.run replace create only for the time of
\* the call. As long as no two run calls have overlapped, a call that has
\* returned or raised leaves create as it found it, and whenever no call is
\* in progress the SDK's own method is installed.
CreateRestoredAfterRun ==
    ~overlapped =>
        /\ \A t \in Callers :
              (rpc[t] \in RunOver /\ NoRunInProgress) => create = before[t]
        /\ NoRunInProgress => create = OriginalCreate

\* a run call whose parent raised has ended, after an earlier call of the
\* other thread, with no call overlapping another
RaisedRunRestored ==
    /\ ~overlapped
    /\ rpc[1] = "raised"
    /\ runsDone[1] = 1
    /\ original_create[1] = OriginalCreate
    /\ rpc[2] = "returned"
    /\ create = OriginalCreate
    /\ llmClass = "ProxyLLM"

\* C26: when run calls on the one instance overlap, then once all of them
\* have ended create is the SDK's own method again.
CreateRestoredAfterOverlap ==
    NoRunInProgress => create = OriginalCreate

-----------------------------------------------------------------------------
(* Properties of the LLM selection *)

-----------------------------------------------------------------------------
(* Properties of the conversion's outcome and of the batch *)

\* the datasets whose conversion returned True, among those tallied
Succeeded == {i \in 1..Len(outcomes) : outcomes[i] = "True"}

-----------------------------------------------------------------------------
(* Properties of the exported images' names and counts *)

\* the file_path entries of the image objects of a JSON value, in the order
\* of its items
RECURSIVE FilePathsIn(_)
RECURSIVE FilePathsInItems(_)
FilePathsIn(jv) ==
    IF jv.kind = "image"
      THEN IF "file_path" \in DOMAIN jv THEN <<jv.file_path>> ELSE <<>>
    ELSE IF jv.kind \in {"list", "dict"} THEN FilePathsInItems(jv.v)
    ELSE <<>>

FilePathsInItems(items) ==
    IF items = <<>> THEN <<>>
    ELSE FilePathsIn(Head(items)) \o FilePathsInItems(Tail(items))

\* the file_path entries of the lines written, line after line
RECURSIVE FilePathsOfLines(_)
FilePathsOfLines(ls) ==
    IF ls = <<>> THEN <<>>
    ELSE FilePathsInItems(Head(ls).vals) \o FilePathsOfLines(Tail(ls))

\* C24: within one conversion no two saved images get the same file name,
\* whatever rows, columns or nested places they come from: every
\* save_image_to_file call wrote a file of its own, and the file_path
\* entries of the lines written are all different.
NoTwoImagesShareAFileName ==
    /\ \A i, j \in 1..Len(saved) :
          saved[i].filename = saved[j].filename => i = j
    /\ Cardinality(files) = Len(saved)
    /\ LET paths == FilePathsOfLines(lines)
       IN  \A i, j \in 1..Len(paths) : paths[i] = paths[j] => i = j

\* the first item of the list in column a and the cell of column a_item0
\* were both images, in each of two rows, and four files were written
NestedNameMeetsColumnName ==
    /\ cresult = "True"
    /\ Len(lines) = 2
    /\ Len(saved) = 4
    /\ \A k \in 1..4 : saved[k].col_name = "a_item0"
    /\ Len(FilePathsOfLines(lines)) = 4
    /\ Cardinality(files) = 4

\* C25: every line's _metadata.images_in_row is the number of image objects
\* with a file_path the line holds, nested ones included, and the total the
\* conversion reports is the number of PNG files it wrote.
ImagesInRowCountsSavedFiles ==
    /\ \A i \in 1..Len(lines) :
          lines[i].metadata.images_in_row = Len(FilePathsInItems(lines[i].vals))
    /\ cresult = "True" => total_images_saved = Cardinality(files)

-----------------------------------------------------------------------------
(* Properties of --pipelines *)

\* the registered pipelines --pipelines names, in the order it names them
ListedPipelines == SelectNamed(pipelinesArg, Range(Registry))

\* C28: the pipelines run are the registered ones --pipelines names, each
\* once, and the i-th count goes to the i-th pipeline in the order
\* --pipelines lists them.
CountsPairedInListedOrder ==
    npc = "done" =>
        /\ {started[k].pipeline : k \in 1..Len(started)} =
               Range(Registry) \cap Range(pipelinesArg)
        /\ \A j, k \in 1..Len(started) :
               started[j].pipeline = started[k].pipeline => j = k
        /\ \A i \in 1..Len(ListedPipelines) :
               \E k \in 1..Len(started) :
                   /\ started[k].pipeline = ListedPipelines[i]
                   /\ started[k].n = nums[i]

-----------------------------------------------------------------------------
(* Properties of get_token under concurrent calls *)

\* C27 (amended): refreshes are mutually exclusive and every token request
\* sent from get_token, whatever the call site, is sent by the thread that
\* holds the lock, at a time the token is due; so once a request has
\* succeeded no thread requests again until the new token is due, and a
\* thread that gets the lock after the refresh returns the fresh token. A
\* request that fails leaves the token due, and the next caller requests
\* again.
RefreshesExcludeEachOther ==
    /\ \A t, u \in Callers : (lpc[t] \in InLock /\ lpc[u] \in InLock) => t = u
    /\ \A t \in Callers : lpc[t] \in InLock => lock = t
    /\ \A t \in Callers : lpc[t] = "request" => NeedsRefresh
    /\ \A i \in 1..Len(requests) :
          /\ requests[i].due
          /\ requests[i].holder = requests[i].by
    /\ \A i, j \in 1..Len(requests) :
          (i < j /\ requests[i].ok) =>
              requests[j].at >= requests[i].at + ExpiresIn - RefreshMargin
    /\ \A t \in Callers : lpc[t] = "return" => token = issued

\* the token was due when both threads asked for it; the first refreshed it
\* from the 401 retry, the second got the lock afterwards and returned the
\* fresh token without a request of its own
SecondThreadSeesFreshToken ==
    /\ Len(requests) = 1
    /\ requests[1].ok
    /\ requests[1].site = "retry"
    /\ requests[1].by = 1
    /\ requests[1].at = 2 * ClockStep
    /\ lpc[2] = "return"
    /\ lcalls[2] = 1
    /\ lgot[1] = 2
    /\ token = 2

\* C27: a single expiry triggers at most one refresh request: no two
\* requests are sent for the same due token.
OneRequestPerExpiry ==
    \A i, j \in 1..Len(requests) :
        requests[i].stale = requests[j].stale => i = j

=============================================================================
